---- MODULE Spec2Model ----
(***************************************************************************)
(* Model of the sbus object-path registry, its binding to the D-Bus        *)
(* connection and the inbound method dispatcher                            *)
(* (src/src/sbus/sssd_dbus_interface.c), together with the InfoPipe Users  *)
(* handlers built on it (src/src/responder/ifp/ifp_users.c).               *)
(*                                                                         *)
(* An object path is a C string, modelled as a sequence of one-character   *)
(* strings, so that the path utilities are computed character by           *)
(* character as the C code computes them.                                  *)
(***************************************************************************)
EXTENDS Integers, Sequences, FiniteSets, TLC

(***************************************************************************)
(* Bounds of the model.                                                    *)
(***************************************************************************)
\* at most this many registry operations (register / reregister / drop)
MaxOps == 4
\* at most this many method-call messages are delivered
MaxMsgs == 1

(***************************************************************************)
(* Values.                                                                 *)
(***************************************************************************)
\* a NULL char pointer: no C string is empty where a path is expected
NULL == <<>>

EOK == "EOK"
EEXIST == "EEXIST"
ENOMEM == "ENOMEM"
ENOENT == "ENOENT"
EIO == "EIO"
ERR_INTERNAL == "ERR_INTERNAL"

\* the Users prefix; the real constant is a longer path of the same shape
IFP_PATH_USERS == <<"/", "o", "/", "U">>
IFP_PATH_USERS_TREE == IFP_PATH_USERS \o <<"/", "*">>
PathUsersDom == IFP_PATH_USERS \o <<"/", "d">>
PathUsersOther == IFP_PATH_USERS \o <<"/", "e">>
PathUser == PathUsersDom \o <<"/", "1">>
PathRoot == <<"/">>
PathRootTree == <<"/", "*">>

\* the paths interfaces are registered at
RegPaths == {IFP_PATH_USERS, IFP_PATH_USERS_TREE, PathUsersDom, PathRootTree}
\* the paths lookups are made for
MsgPaths == {IFP_PATH_USERS, PathUsersDom, PathUsersOther, PathUser, PathRoot}
\* the paths messages are delivered on
DeliveryPaths == {IFP_PATH_USERS, PathUsersDom}

\* meta->name of the vtables
IfaceUsers == "ifp.Users"
IfaceIntrospect == "org.freedesktop.DBus.Introspectable"

\* instance data handed to sbus_conn_register_iface
DataConn == "conn"
InstanceData == {"ctx1", "ctx2"}

\* the (vtable, instance data) pairs callers register
RegInputs == ({IfaceUsers} \X InstanceData) \cup {<<IfaceIntrospect, DataConn>>}

(***************************************************************************)
(* Path utilities.                                                         *)
(***************************************************************************)
sbus_opath_is_subtree(path) ==
    LET len == Len(path) IN
    IF len < 2 THEN FALSE
    ELSE path[len - 1] = "/" /\ path[len] = "*"

\* a variant that cuts the slash of "/*" as it cuts any other
get_base_path_cuts_root_slash(object_path) ==
    LET len == Len(object_path) IN
    IF ~sbus_opath_is_subtree(object_path) THEN object_path
    ELSE SubSeq(object_path, 1, len - 2)

sbus_opath_get_base_path(object_path) ==
    LET len == Len(object_path) IN
    IF ~sbus_opath_is_subtree(object_path) THEN object_path
    ELSE IF len - 2 # 0 THEN SubSeq(object_path, 1, len - 2)
    ELSE <<"/">>

\* strrchr(s, '/'): index of the last slash, 0 when there is none
LastSlash(s) ==
    LET idx == {i \in 1..Len(s) : s[i] = "/"} IN
    IF idx = {} THEN 0 ELSE CHOOSE i \in idx : \A j \in idx : j <= i

\* a variant that puts the asterisk after the last slash of the path as it
\* was given, "/*" included
parent_subtree_keeps_subtree(path) ==
    LET slash == LastSlash(path)
    IN  IF Len(path) = 1 THEN NULL
        ELSE IF slash = 0 THEN NULL
        ELSE IF slash = Len(path) THEN NULL
        ELSE SubSeq(path, 1, slash) \o <<"*">>

sbus_opath_parent_subtree(path) ==
    LET subtree == sbus_opath_get_base_path(path)
        slash == LastSlash(subtree)
    IN  IF Len(subtree) = 1 THEN NULL
        ELSE IF slash = 0 THEN NULL
        ELSE IF slash = Len(subtree) THEN NULL
        ELSE SubSeq(subtree, 1, slash) \o <<"*">>

(***************************************************************************)
(* Interface lists and the registry (conn->managed_paths): a function      *)
(* from the keys of the hash table to the interface list of the entry.     *)
(***************************************************************************)
sbus_new_interface(object_path, iface_vtable, instance_data) ==
    [name |-> iface_vtable, path |-> object_path, instance_data |-> instance_data]

NoIface == [name |-> "NULL", path |-> NULL, instance_data |-> "NULL"]

sbus_iface_list_lookup(list, iface) ==
    LET idx == {i \in 1..Len(list) : list[i].name = iface} IN
    IF idx = {} THEN NoIface
    ELSE list[CHOOSE i \in idx : \A j \in idx : i <= j]

sbus_opath_hash_has_path(table, object_path) ==
    object_path \in DOMAIN table

HashEnter(table, key, value) ==
    [k \in (DOMAIN table) \cup {key} |-> IF k = key THEN value ELSE table[k]]

HashDelete(table, key) ==
    [k \in (DOMAIN table) \ {key} |-> table[k]]

\* a variant that appends without looking for the interface name first
add_iface_no_duplicate_check(table, object_path, iface) ==
    IF object_path \in DOMAIN table
    THEN [ret |-> EOK, path_known |-> TRUE,
          table |-> [table EXCEPT ![object_path] = Append(@, iface)]]
    ELSE [ret |-> EOK, path_known |-> FALSE,
          table |-> HashEnter(table, object_path, <<iface>>)]

\* a variant that replaces the registered interface before reporting EEXIST
add_iface_overwrite_duplicate(table, object_path, iface) ==
    IF object_path \in DOMAIN table
    THEN IF sbus_iface_list_lookup(table[object_path], iface.name) # NoIface
         THEN [ret |-> EEXIST, path_known |-> TRUE,
               table |-> [table EXCEPT ![object_path] =
                   [i \in 1..Len(@) |-> IF @[i].name = iface.name THEN iface ELSE @[i]]]]
         ELSE [ret |-> EOK, path_known |-> TRUE,
               table |-> [table EXCEPT ![object_path] = Append(@, iface)]]
    ELSE [ret |-> EOK, path_known |-> FALSE,
          table |-> HashEnter(table, object_path, <<iface>>)]

\* a variant that keeps the interfaces of a subtree path in the entry of
\* its base path
add_iface_under_base_path(table, object_path, iface) ==
    LET key == sbus_opath_get_base_path(object_path) IN
    IF key \in DOMAIN table
    THEN IF sbus_iface_list_lookup(table[key], iface.name) # NoIface
         THEN [ret |-> EEXIST, path_known |-> TRUE, table |-> table]
         ELSE [ret |-> EOK, path_known |-> TRUE,
               table |-> [table EXCEPT ![key] = Append(@, iface)]]
    ELSE [ret |-> EOK, path_known |-> FALSE,
          table |-> HashEnter(table, key, <<iface>>)]

sbus_opath_hash_add_iface(table, object_path, iface) ==
    IF object_path \in DOMAIN table
    THEN IF sbus_iface_list_lookup(table[object_path], iface.name) # NoIface
         THEN [ret |-> EEXIST, path_known |-> TRUE, table |-> table]
         ELSE [ret |-> EOK, path_known |-> TRUE,
               table |-> [table EXCEPT ![object_path] = Append(@, iface)]]
    ELSE [ret |-> EOK, path_known |-> FALSE,
          table |-> HashEnter(table, object_path, <<iface>>)]

\* a variant that probes the exact path only
lookup_iface_exact_only(table, lookup_path, iface_name) ==
    IF lookup_path \in DOMAIN table
    THEN sbus_iface_list_lookup(table[lookup_path], iface_name)
    ELSE NoIface

\* a variant that prefers the farthest ancestor to the nearest entry
RECURSIVE lookup_iface_farthest_first(_, _, _)
lookup_iface_farthest_first(table, lookup_path, iface_name) ==
    IF lookup_path = NULL THEN NoIface
    ELSE LET up == lookup_iface_farthest_first(table,
                       sbus_opath_parent_subtree(lookup_path), iface_name)
         IN  IF up # NoIface THEN up
             ELSE IF lookup_path \in DOMAIN table
             THEN sbus_iface_list_lookup(table[lookup_path], iface_name)
             ELSE NoIface

\* a variant whose walk ends at the first entry that exists
RECURSIVE lookup_iface_stop_at_entry(_, _, _)
lookup_iface_stop_at_entry(table, lookup_path, iface_name) ==
    IF lookup_path = NULL THEN NoIface
    ELSE IF lookup_path \in DOMAIN table
    THEN sbus_iface_list_lookup(table[lookup_path], iface_name)
    ELSE lookup_iface_stop_at_entry(table,
             sbus_opath_parent_subtree(lookup_path), iface_name)

RECURSIVE sbus_opath_hash_lookup_iface(_, _, _)
sbus_opath_hash_lookup_iface(table, lookup_path, iface_name) ==
    IF lookup_path = NULL THEN NoIface
    ELSE LET iface == IF lookup_path \in DOMAIN table
                      THEN sbus_iface_list_lookup(table[lookup_path], iface_name)
                      ELSE NoIface
         IN  IF iface # NoIface THEN iface
             ELSE sbus_opath_hash_lookup_iface(table,
                      sbus_opath_parent_subtree(lookup_path), iface_name)

(***************************************************************************)
(* The transport: the object tree of the DBusConnection, a set of          *)
(* registered handlers [path, fallback].                                   *)
(***************************************************************************)
DBusRegistered(tree, path) == \E r \in tree : r.path = path

\* unregistering a path that has no handler changes nothing
dbus_connection_unregister_object_path(tree, path) ==
    {r \in tree : r.path # path}

\* registration of a handler: refused when out of memory and when the path
\* already has a handler (DBUS_ERROR_OBJECT_PATH_IN_USE)
DBusRegister(tree, path, fallback, oom) ==
    IF oom THEN [dbret |-> FALSE, in_use |-> FALSE, tree |-> tree]
    ELSE IF DBusRegistered(tree, path)
    THEN [dbret |-> FALSE, in_use |-> TRUE, tree |-> tree]
    ELSE [dbret |-> TRUE, in_use |-> FALSE,
          tree |-> tree \cup {[path |-> path, fallback |-> fallback]}]

(***************************************************************************)
(* Connection binding.                                                     *)
(***************************************************************************)
\* oom: the transport runs out of memory while registering.  Failures to
\* allocate the interface record or the hash entry return before the
\* registry is touched and are left out.
sbus_conn_register_path(table, tree, path, oom) ==
    IF sbus_opath_is_subtree(path)
    THEN LET reg_path == sbus_opath_get_base_path(path)
             tree1 == IF sbus_opath_hash_has_path(table, reg_path)
                      THEN dbus_connection_unregister_object_path(tree, reg_path)
                      ELSE tree
             r == DBusRegister(tree1, reg_path, TRUE, oom)
         IN  [ret |-> IF r.dbret THEN EOK ELSE ENOMEM, tree |-> r.tree]
    ELSE LET r == DBusRegister(tree, path, FALSE, oom)
         IN  IF r.in_use THEN [ret |-> EOK, tree |-> r.tree]
             ELSE [ret |-> IF r.dbret THEN EOK ELSE ENOMEM, tree |-> r.tree]

\* a variant that takes the interface out of the registry again when the
\* transport registration fails
RECURSIVE register_iface_rollback_on_failure(_, _, _, _, _, _)
register_iface_rollback_on_failure(table, tree, iface_vtable, object_path, pvt, oom) ==
    LET iface == sbus_new_interface(object_path, iface_vtable, pvt)
        add == sbus_opath_hash_add_iface(table, object_path, iface)
        reg == sbus_conn_register_path(add.table, tree, object_path, oom)
    IN  IF add.ret # EOK
        THEN [ret |-> add.ret, table |-> add.table, tree |-> tree]
        ELSE IF add.path_known
        THEN [ret |-> EOK, table |-> add.table, tree |-> tree]
        ELSE IF reg.ret # EOK
        THEN [ret |-> reg.ret, table |-> table, tree |-> reg.tree]
        ELSE register_iface_rollback_on_failure(add.table, reg.tree, IfaceIntrospect,
                                                object_path, DataConn, oom)

RECURSIVE sbus_conn_register_iface(_, _, _, _, _, _)
sbus_conn_register_iface(table, tree, iface_vtable, object_path, pvt, oom) ==
    LET iface == sbus_new_interface(object_path, iface_vtable, pvt)
        add == sbus_opath_hash_add_iface(table, object_path, iface)
        reg == sbus_conn_register_path(add.table, tree, object_path, oom)
    IN  IF add.ret # EOK
        THEN [ret |-> add.ret, table |-> add.table, tree |-> tree]
        ELSE IF add.path_known
        THEN [ret |-> EOK, table |-> add.table, tree |-> tree]
        ELSE IF reg.ret # EOK
        THEN [ret |-> reg.ret, table |-> add.table, tree |-> reg.tree]
        ELSE sbus_conn_register_iface(add.table, reg.tree, IfaceIntrospect,
                                      object_path, DataConn, oom)

(***************************************************************************)
(* Interface metadata and the identity store's answers.                    *)
(***************************************************************************)
\* methods of the Users vtable whose handler is set
UsersMethods == {"FindByName", "FindByID", "ListByName", "ListByDomainAndName"}

\* a method the metadata of the Users interface lists while the vtable has
\* no handler for it
UnsetMethods == {"Unset"}

\* members a caller may name; "Bogus" is no method of any interface
Members == UsersMethods \cup UnsetMethods \cup {"Bogus"}

\* interfaces a caller may name
MsgIfaces == {IfaceUsers}

\* the method of that name in the metadata of the interface, "NULL" if the
\* metadata lists none
sbus_meta_find_method(iface_name, method_name) ==
    IF iface_name = IfaceUsers /\ method_name \in UsersMethods \cup UnsetMethods
    THEN method_name
    ELSE IF iface_name = IfaceIntrospect /\ method_name = "Introspect"
    THEN method_name
    ELSE "NULL"

\* method->vtable_offset: the place of the handler in the vtable, 0 when
\* the vtable has no handler for the method
vtable_offset(method) ==
    CASE method = "FindByName" -> 1
      [] method = "FindByID" -> 2
      [] method = "ListByName" -> 3
      [] method = "ListByDomainAndName" -> 4
      [] method = "Introspect" -> 1
      [] OTHER -> 0

\* the user the identity store knows: uid 1 in domain d
StoreDomain == <<"d">>
StoreUid == <<"1">>

\* the names of the domains of the responder: letters, a dot, an underscore
KnownDomains == {StoreDomain, <<"d", ".", "c">>, <<"d", "_">>}

\* the domain of that name, NULL if the list holds none
find_domain_by_name(domains, name) ==
    IF name \in domains THEN name ELSE NULL

\* instance data that is a struct ifp_ctx (talloc_get_type succeeds)
IsIfpCtx(data) == data \in InstanceData

\* the characters of a part that an element of an object path cannot hold,
\* and the two hexadecimal digits each is written with after an underscore
EscapeCode == [c \in {".", "_"} |-> IF c = "." THEN <<"2", "e">> ELSE <<"5", "f">>]

RECURSIVE EscapeChars(_)
EscapeChars(part) ==
    IF part = <<>> THEN <<>>
    ELSE (IF Head(part) \in DOMAIN EscapeCode
          THEN <<"_">> \o EscapeCode[Head(part)]
          ELSE <<Head(part)>>) \o EscapeChars(Tail(part))

\* the element a part is written as; the empty part is written "_"
sbus_opath_escape_part(part) ==
    IF part = <<>> THEN <<"_">> ELSE EscapeChars(part)

RECURSIVE UnescapeChars(_)
UnescapeChars(s) ==
    IF s = <<>> THEN [ok |-> TRUE, part |-> <<>>]
    ELSE IF s[1] # "_"
    THEN LET rest == UnescapeChars(Tail(s))
         IN  [ok |-> rest.ok, part |-> <<s[1]>> \o rest.part]
    ELSE IF Len(s) < 3 \/ \A c \in DOMAIN EscapeCode : EscapeCode[c] # SubSeq(s, 2, 3)
    THEN [ok |-> FALSE, part |-> <<>>]
    ELSE LET c == CHOOSE c \in DOMAIN EscapeCode : EscapeCode[c] = SubSeq(s, 2, 3)
             rest == UnescapeChars(SubSeq(s, 4, Len(s)))
         IN  [ok |-> rest.ok, part |-> <<c>> \o rest.part]

\* the part an element stands for
sbus_opath_unescape_part(s) ==
    IF s = <<"_">> THEN [ok |-> TRUE, part |-> <<>>] ELSE UnescapeChars(s)

\* join the base and the escaped parts with slashes
sbus_opath_compose(base, part1, part2) ==
    base \o <<"/">> \o sbus_opath_escape_part(part1)
         \o <<"/">> \o sbus_opath_escape_part(part2)

\* a variant that writes the uid before the domain
build_path_uid_before_domain(domain, uid, oom) ==
    IF uid = NULL THEN NULL
    ELSE IF oom THEN NULL
    ELSE sbus_opath_compose(IFP_PATH_USERS, uid, domain)

\* domain: domain->name; uid: the uidNumber attribute of the message as a
\* string, NULL if it has none; oom: composing fails
ifp_users_build_path_from_msg(domain, uid, oom) ==
    IF uid = NULL THEN NULL
    ELSE IF oom THEN NULL
    ELSE sbus_opath_compose(IFP_PATH_USERS, domain, uid)

\* replies
DBUS_ERROR_UNKNOWN_METHOD == "org.freedesktop.DBus.Error.UnknownMethod"
DBUS_ERROR_FAILED == "org.freedesktop.DBus.Error.Failed"
SBUS_ERROR_NOT_FOUND == "sbus.Error.NotFound"
SBUS_ERROR_INTERNAL == "sbus.Error.Internal"

ErrorReply(name, text) == [kind |-> "error", name |-> name, text |-> text, path |-> NULL]
ReturnReply(object_path) == [kind |-> "return", name |-> "", text |-> "", path |-> object_path]

(***************************************************************************)
(* State.                                                                  *)
(***************************************************************************)
VARIABLES
    managed_paths,  \* conn->managed_paths: key -> interface list
    dbus_tree,      \* handlers registered with the DBusConnection
    conn_state,     \* "alive", "destroying" (the registry is being freed)
    released_keys,  \* keys the registry held when its release began
    last,           \* the last registry operation and what it returned
    nops,           \* number of registry operations so far
    failed_paths,   \* keys whose registration failed at the transport step
    req,            \* per message: the message and its struct sbus_request
    replies,        \* per message: the replies sent for it, in order
    user_env,       \* a property request on a user object: the instance data,
                    \* the attributes its context allows, the request path
    user_out,       \* the last getter called for it and what it returned
    supported,      \* the last enumeration of the interfaces supported on a
                    \* path and what it returned
    opath,          \* an object path, how far the walk over its parents
                    \* has come and what the path utilities returned for it
    upath,          \* a user of a domain, the object path built for it and
                    \* what decomposing that path returned
    doms            \* a list of domains and the last lookup made in it

vars == <<managed_paths, dbus_tree, conn_state, released_keys, last, nops,
          failed_paths, req, replies, user_env, user_out, supported,
          opath, upath, doms>>

regVars == <<managed_paths, dbus_tree, conn_state, released_keys, last, nops,
             failed_paths>>
reqVars == <<req, replies>>
userVars == <<user_env, user_out>>
callVars == <<supported, opath, upath, doms>>

MsgIds == 1..MaxMsgs

\* fresh: the operation is a reregister_all that began on a connection
\* holding no registration
NoOp == [op |-> "none", path |-> NULL, name |-> "NULL", ret |-> EOK,
         fresh |-> FALSE]

\* st: "new"         not delivered yet
\*     "need_memory" the handler returned NEED_MEMORY, the transport retries
\*     "unknown"     answered UnknownMethod, no request was created
\*     "sender_id"   request created, caller-identity resolution pending
\*     "cache_req"   handler ran, identity-store query pending
\*     "returned"    handler returned EOK, nothing pending, request alive
\*     "freed"       terminal call made, request released
\*     "discarded"   released with the connection before a terminal call
\* intf, method: sbus_req->intf and sbus_req->method
\* client:       sbus_req->client, "unset" until the caller identity is stored
\* sender_ret:   what sbus_get_sender_id_recv returned, "none" before it ran
\* invoked:      how many times the handler of the method was called
\* handler_ret:  what the handler returned, "none" before it ran
\* terminal:     how many terminal calls (finish, fail-and-finish) were made
\* pvt:          the instance data the handler was called with, "none" before
\* cache_ret:    what the identity-store query returned, "none" before
\* object_path:  the object path the continuation composed, NULL if none
NoReq == [st |-> "new", path |-> NULL, iface |-> "NULL", member |-> "NULL",
          intf |-> NoIface, method |-> "NULL", client |-> "unset",
          sender_ret |-> "none", invoked |-> 0, handler_ret |-> "none",
          terminal |-> 0, cache_ret |-> "none", object_path |-> NULL,
          pvt |-> "none"]

\* a NULL pointer to a string and a NULL hash table
NoString == "NULL"
NoTable == [set |-> FALSE, map |-> <<>>]

\* what a getter leaves in its out parameters before it does anything else:
\* *_out = NULL (strings, lists, tables), *_out = 0 (numbers), *_size = 0;
\* queries: the identity-store queries made, with their answers, in order
EmptyOut == [out_str |-> NoString, out_u32 |-> 0, out_paths |-> NULL,
             size |-> 0, out_table |-> NoTable, queries |-> <<>>]

\* no property request, no getter called
NoUserEnv == [data |-> "NULL", whitelist |-> {}, path |-> NULL]
NoUserOut == [getter |-> "none", res |-> EmptyOut]

\* no domain: what a lookup returns when it finds none
NoDom == [c |-> -1, name |-> NULL, flat_name |-> NULL, domain_id |-> NULL,
          disabled |-> FALSE]

\* the values of the variables that hold the last call of a kind, before
\* any call.
\* supported: no enumeration was made
\* opath:     no path is looked at; based: the base of the path was asked for
\* upath:     no user path is built; st: "new", "built", "decomposed"
\* doms:      no list of domains, no lookup; by: "none", "name", "flat_name",
\*            "sid"; c: the number the key of the lookup was written with
NoCall ==
    [supported |-> [path |-> NULL, ret |-> "none", list |-> <<>>],
     opath |-> [start |-> NULL, cur |-> NULL, steps |-> 0, based |-> FALSE,
                base |-> NULL, base_base |-> NULL, base_tree_is_subtree |-> FALSE],
     upath |-> [st |-> "new", domain |-> NULL, uid |-> 0, path |-> NULL,
                prefix |-> NULL, segs |-> <<>>,
                dec |-> [ret |-> EOK, domain |-> NULL, uid |-> 0]],
     doms |-> [list |-> <<>>, by |-> "none", c |-> 0, match_any |-> FALSE,
               dom |-> NoDom]]

InitCalls ==
    /\ supported = NoCall.supported
    /\ opath = NoCall.opath
    /\ upath = NoCall.upath
    /\ doms = NoCall.doms

Init ==
    /\ user_env = NoUserEnv
    /\ user_out = NoUserOut
    /\ managed_paths = <<>>
    /\ dbus_tree = {}
    /\ conn_state = "alive"
    /\ released_keys = {}
    /\ last = NoOp
    /\ nops = 0
    /\ failed_paths = {}
    /\ req = [m \in MsgIds |-> NoReq]
    /\ replies = [m \in MsgIds |-> <<>>]
    /\ InitCalls

(***************************************************************************)
(* Registry operations.                                                    *)
(***************************************************************************)
RegisterIface ==
    /\ conn_state = "alive"
    /\ nops < MaxOps
    /\ \E in \in RegInputs, object_path \in RegPaths, oom \in BOOLEAN :
         LET r == sbus_conn_register_iface(managed_paths, dbus_tree, in[1],
                                           object_path, in[2], oom)
         IN  /\ managed_paths' = r.table
             /\ dbus_tree' = r.tree
             /\ last' = [op |-> "register", path |-> object_path,
                         name |-> in[1], ret |-> r.ret, fresh |-> FALSE]
             /\ failed_paths' = IF r.ret = ENOMEM
                                THEN failed_paths \cup {object_path}
                                ELSE failed_paths
    /\ nops' = nops + 1
    /\ UNCHANGED <<conn_state, released_keys, reqVars, userVars, callVars>>

\* the requests after the connection that owns them was released: a request
\* that was not finished is freed with the connection, and with it the
\* caller-identity resolution or identity-store query it waits for
DiscardRequests(r) ==
    [m \in DOMAIN r |->
        IF r[m].st \in {"sender_id", "cache_req", "returned"}
        THEN [r[m] EXCEPT !.st = "discarded"]
        ELSE r[m]]

\* a variant that leaves the requests of the connection as they are
release_keeps_requests ==
    /\ conn_state = "alive"
    /\ conn_state' = "destroying"
    /\ released_keys' = DOMAIN managed_paths
    /\ last' = NoOp
    /\ failed_paths' = {}
    /\ UNCHANGED <<managed_paths, dbus_tree, nops, reqVars, userVars, callVars>>

\* the scope owning the registry is released: the requests of the
\* connection are discarded, the hash table is destroyed, entry by entry
Release ==
    /\ conn_state = "alive"
    /\ conn_state' = "destroying"
    /\ released_keys' = DOMAIN managed_paths
    /\ last' = NoOp
    /\ failed_paths' = {}
    /\ req' = DiscardRequests(req)
    /\ UNCHANGED <<managed_paths, dbus_tree, nops, replies, userVars, callVars>>

\* the delete callback of one entry, followed by the entry's removal
sbus_opath_hash_delete_cb ==
    /\ conn_state = "destroying"
    /\ \E key \in DOMAIN managed_paths :
         LET path == sbus_opath_get_base_path(key) IN
         /\ dbus_tree' = dbus_connection_unregister_object_path(dbus_tree, path)
         /\ managed_paths' = HashDelete(managed_paths, key)
    /\ UNCHANGED <<conn_state, released_keys, last, nops, failed_paths, reqVars, userVars, callVars>>

NextRegistry ==
    \/ RegisterIface
    \/ Release
    \/ sbus_opath_hash_delete_cb

SpecRegistry == Init /\ [][NextRegistry]_vars

(***************************************************************************)
(* Inbound dispatcher.                                                     *)
(***************************************************************************)
\* base is path or an ancestor of path in the object tree
IsPathPrefix(base, path) ==
    \/ base = PathRoot
    \/ base = path
    \/ /\ Len(path) > Len(base)
       /\ SubSeq(path, 1, Len(base)) = base
       /\ path[Len(base) + 1] = "/"

\* the transport hands a message to the registered handler of its path, or
\* to the fallback handler of an ancestor
DBusRoutes(tree, path) ==
    \E r \in tree : r.path = path \/ (r.fallback /\ IsPathPrefix(r.path, path))

\* a variant that creates a request for every method the metadata lists,
\* with or without a handler in the vtable
message_handler_ignores_vtable_offset ==
    /\ conn_state = "alive"
    /\ \E m \in DOMAIN req, path \in DeliveryPaths, iface_name \in MsgIfaces,
          method_name \in Members, oom \in BOOLEAN :
         /\ req[m].st \in {"new", "need_memory"}
         /\ \A k \in DOMAIN req : k < m => req[k].st # "new"
         /\ req[m].st = "need_memory" =>
                /\ path = req[m].path
                /\ iface_name = req[m].iface
                /\ method_name = req[m].member
         /\ DBusRoutes(dbus_tree, path)
         /\ LET iface == sbus_opath_hash_lookup_iface(managed_paths, path, iface_name)
                method == IF iface = NoIface THEN "NULL"
                          ELSE sbus_meta_find_method(iface.name, method_name)
                hdr == [NoReq EXCEPT !.path = path, !.iface = iface_name,
                                     !.member = method_name]
            IN  IF iface = NoIface \/ method = "NULL"
                THEN /\ req' = [req EXCEPT ![m] = [hdr EXCEPT !.st = "unknown"]]
                     /\ replies' = [replies EXCEPT ![m] =
                            Append(@, ErrorReply(DBUS_ERROR_UNKNOWN_METHOD, ""))]
                ELSE IF oom
                THEN /\ req' = [req EXCEPT ![m] = [hdr EXCEPT !.st = "need_memory"]]
                     /\ UNCHANGED replies
                ELSE /\ req' = [req EXCEPT ![m] = [hdr EXCEPT !.st = "sender_id",
                                    !.intf = iface, !.method = method]]
                     /\ UNCHANGED replies
    /\ UNCHANGED <<regVars, userVars, callVars>>

\* a variant that answers the message with an error and keeps its request
\* when the request or the caller-identity resolution cannot be allocated
message_handler_replies_without_memory ==
    /\ conn_state = "alive"
    /\ \E m \in DOMAIN req, path \in DeliveryPaths, iface_name \in MsgIfaces,
          method_name \in Members, oom \in BOOLEAN :
         /\ req[m].st \in {"new", "need_memory"}
         /\ \A k \in DOMAIN req : k < m => req[k].st # "new"
         /\ req[m].st = "need_memory" =>
                /\ path = req[m].path
                /\ iface_name = req[m].iface
                /\ method_name = req[m].member
         /\ DBusRoutes(dbus_tree, path)
         /\ LET iface == sbus_opath_hash_lookup_iface(managed_paths, path, iface_name)
                method == IF iface = NoIface THEN "NULL"
                          ELSE sbus_meta_find_method(iface.name, method_name)
                hdr == [NoReq EXCEPT !.path = path, !.iface = iface_name,
                                     !.member = method_name]
            IN  IF iface = NoIface \/ method = "NULL" \/ vtable_offset(method) = 0
                THEN /\ req' = [req EXCEPT ![m] = [hdr EXCEPT !.st = "unknown"]]
                     /\ replies' = [replies EXCEPT ![m] =
                            Append(@, ErrorReply(DBUS_ERROR_UNKNOWN_METHOD, ""))]
                ELSE IF oom
                THEN /\ req' = [req EXCEPT ![m] = [hdr EXCEPT !.st = "need_memory",
                                    !.intf = iface, !.method = method]]
                     /\ replies' = [replies EXCEPT ![m] =
                            Append(@, ErrorReply(DBUS_ERROR_FAILED, "Out of memory"))]
                ELSE /\ req' = [req EXCEPT ![m] = [hdr EXCEPT !.st = "sender_id",
                                    !.intf = iface, !.method = method]]
                     /\ UNCHANGED replies
    /\ UNCHANGED <<regVars, userVars, callVars>>

\* oom: sbus_new_request or sbus_get_sender_id_send cannot allocate
sbus_message_handler ==
    /\ conn_state = "alive"
    /\ \E m \in DOMAIN req, path \in DeliveryPaths, iface_name \in MsgIfaces,
          method_name \in Members, oom \in BOOLEAN :
         /\ req[m].st \in {"new", "need_memory"}
         /\ \A k \in DOMAIN req : k < m => req[k].st # "new"
         /\ req[m].st = "need_memory" =>
                /\ path = req[m].path
                /\ iface_name = req[m].iface
                /\ method_name = req[m].member
         /\ DBusRoutes(dbus_tree, path)
         /\ LET iface == sbus_opath_hash_lookup_iface(managed_paths, path, iface_name)
                method == IF iface = NoIface THEN "NULL"
                          ELSE sbus_meta_find_method(iface.name, method_name)
                hdr == [NoReq EXCEPT !.path = path, !.iface = iface_name,
                                     !.member = method_name]
            IN  IF iface = NoIface \/ method = "NULL" \/ vtable_offset(method) = 0
                THEN /\ req' = [req EXCEPT ![m] = [hdr EXCEPT !.st = "unknown"]]
                     /\ replies' = [replies EXCEPT ![m] =
                            Append(@, ErrorReply(DBUS_ERROR_UNKNOWN_METHOD, ""))]
                ELSE IF oom
                THEN /\ req' = [req EXCEPT ![m] = [hdr EXCEPT !.st = "need_memory"]]
                     /\ UNCHANGED replies
                ELSE /\ req' = [req EXCEPT ![m] = [hdr EXCEPT !.st = "sender_id",
                                    !.intf = iface, !.method = method]]
                     /\ UNCHANGED replies
    /\ UNCHANGED <<regVars, userVars, callVars>>

(***************************************************************************)
(* Users handlers: what the handler returns to the dispatcher and whether  *)
(* it has scheduled an identity-store query on the request.                *)
(***************************************************************************)
\* oom: cache_req_user_by_name_send cannot allocate
ifp_users_find_by_name(data, oom) ==
    IF ~IsIfpCtx(data) THEN [ret |-> ERR_INTERNAL, pending |-> FALSE]
    ELSE IF oom THEN [ret |-> ENOMEM, pending |-> FALSE]
    ELSE [ret |-> EOK, pending |-> TRUE]

ifp_users_find_by_id(data, oom) ==
    IF ~IsIfpCtx(data) THEN [ret |-> ERR_INTERNAL, pending |-> FALSE]
    ELSE IF oom THEN [ret |-> ENOMEM, pending |-> FALSE]
    ELSE [ret |-> EOK, pending |-> TRUE]

ifp_users_list_by_name(data) == [ret |-> EOK, pending |-> FALSE]

ifp_users_list_by_domain_and_name(data) == [ret |-> EOK, pending |-> FALSE]

\* VTABLE_FUNC(vtable, method->vtable_offset) called through the invoker
InvokeHandler(method, data, oom) ==
    CASE method = "FindByName" -> ifp_users_find_by_name(data, oom)
      [] method = "FindByID" -> ifp_users_find_by_id(data, oom)
      [] method = "ListByName" -> ifp_users_list_by_name(data)
      [] method = "ListByDomainAndName" -> ifp_users_list_by_domain_and_name(data)
      [] OTHER -> [ret |-> ERR_INTERNAL, pending |-> FALSE]

\* the request after the handler was called and returned h: a handler that
\* returns EOK is left to reply itself, any other return fails and finishes
\* the request
sbus_request_invoke_or_finish(r, h) ==
    IF h.ret = EOK
    THEN [req |-> [r EXCEPT !.st = IF h.pending THEN "cache_req" ELSE "returned",
                            !.invoked = @ + 1, !.handler_ret = h.ret],
          reply |-> <<>>]
    ELSE [req |-> [r EXCEPT !.st = "freed", !.invoked = @ + 1,
                            !.handler_ret = h.ret, !.terminal = @ + 1],
          reply |-> <<ErrorReply(DBUS_ERROR_FAILED, "Internal Error")>>]

\* a variant that resolves the interface again when the caller identity
\* arrives instead of using the one stored in the request
got_caller_id_resolves_again ==
    /\ conn_state = "alive"
    /\ \E m \in DOMAIN req, ret \in {EOK, EIO}, oom \in BOOLEAN :
         /\ req[m].st = "sender_id"
         /\ IF ret # EOK
            THEN /\ req' = [req EXCEPT ![m].st = "freed", ![m].sender_ret = ret,
                                       ![m].terminal = @ + 1]
                 /\ replies' = [replies EXCEPT ![m] = Append(@,
                        ErrorReply(DBUS_ERROR_FAILED, "Failed to resolve caller's ID"))]
            ELSE LET now == sbus_opath_hash_lookup_iface(managed_paths, req[m].path,
                                                         req[m].iface)
                     r == [req[m] EXCEPT !.sender_ret = ret, !.client = "caller",
                                         !.pvt = now.instance_data]
                     h == InvokeHandler(r.method, r.pvt, oom)
                     out == sbus_request_invoke_or_finish(r, h)
                 IN  /\ req' = [req EXCEPT ![m] = out.req]
                     /\ replies' = [replies EXCEPT ![m] = @ \o out.reply]
    /\ UNCHANGED <<regVars, userVars, callVars>>

\* a variant that calls the handler whatever the caller-identity resolution
\* returned
got_caller_id_invokes_always ==
    /\ conn_state = "alive"
    /\ \E m \in DOMAIN req, ret \in {EOK, EIO}, oom \in BOOLEAN :
         /\ req[m].st = "sender_id"
         /\ LET r == [req[m] EXCEPT !.sender_ret = ret,
                                    !.client = IF ret = EOK THEN "caller" ELSE @,
                                    !.pvt = req[m].intf.instance_data]
                h == InvokeHandler(r.method, r.pvt, oom)
                out == sbus_request_invoke_or_finish(r, h)
            IN  /\ req' = [req EXCEPT ![m] = out.req]
                /\ replies' = [replies EXCEPT ![m] = @ \o out.reply]
    /\ UNCHANGED <<regVars, userVars, callVars>>

\* ret: what sbus_get_sender_id_recv returns; oom: for the handler
sbus_message_handler_got_caller_id ==
    /\ conn_state = "alive"
    /\ \E m \in DOMAIN req, ret \in {EOK, EIO}, oom \in BOOLEAN :
         /\ req[m].st = "sender_id"
         /\ IF ret # EOK
            THEN /\ req' = [req EXCEPT ![m].st = "freed", ![m].sender_ret = ret,
                                       ![m].terminal = @ + 1]
                 /\ replies' = [replies EXCEPT ![m] = Append(@,
                        ErrorReply(DBUS_ERROR_FAILED, "Failed to resolve caller's ID"))]
            ELSE LET r == [req[m] EXCEPT !.sender_ret = ret, !.client = "caller",
                                         !.pvt = req[m].intf.instance_data]
                     h == InvokeHandler(r.method, r.pvt, oom)
                     out == sbus_request_invoke_or_finish(r, h)
                 IN  /\ req' = [req EXCEPT ![m] = out.req]
                     /\ replies' = [replies EXCEPT ![m] = @ \o out.reply]
    /\ UNCHANGED <<regVars, userVars, callVars>>

\* the reply ifp_users_find_by_name_done sends: ret is what
\* cache_req_user_by_name_recv returns
FindByNameDoneReply(ret, has_uid, oom) ==
    LET object_path == ifp_users_build_path_from_msg(StoreDomain, IF has_uid THEN StoreUid ELSE NULL, oom) IN
    IF ret = ENOENT THEN ErrorReply(SBUS_ERROR_NOT_FOUND, "User not found")
    ELSE IF ret # EOK THEN ErrorReply(DBUS_ERROR_FAILED, "Failed to fetch user")
    ELSE ReturnReply(object_path)

\* a variant that finishes every request waiting for the identity store
\* when the query of one of them completes
find_by_name_done_finishes_all ==
    /\ conn_state = "alive"
    /\ \E m \in DOMAIN req, ret \in {EOK, ENOENT, EIO}, has_uid \in BOOLEAN, oom \in BOOLEAN :
         /\ req[m].st = "cache_req"
         /\ req[m].method = "FindByName"
         /\ ret # EOK => (has_uid /\ ~oom)
         /\ LET object_path == IF ret = EOK
                               THEN ifp_users_build_path_from_msg(StoreDomain, IF has_uid THEN StoreUid ELSE NULL, oom)
                               ELSE NULL
                waiting == {k \in DOMAIN req : req[k].st = "cache_req"}
            IN  /\ req' = [k \in DOMAIN req |->
                              IF k \in waiting
                              THEN [req[k] EXCEPT !.st = "freed", !.cache_ret = ret,
                                                  !.terminal = @ + 1,
                                                  !.object_path = object_path]
                              ELSE req[k]]
                /\ replies' = [k \in DOMAIN req |->
                                  IF k \in waiting
                                  THEN Append(replies[k], FindByNameDoneReply(ret, has_uid, oom))
                                  ELSE replies[k]]
    /\ UNCHANGED <<regVars, userVars, callVars>>

ifp_users_find_by_name_done ==
    /\ conn_state = "alive"
    /\ \E m \in DOMAIN req, ret \in {EOK, ENOENT, EIO}, has_uid \in BOOLEAN, oom \in BOOLEAN :
         /\ req[m].st = "cache_req"
         /\ req[m].method = "FindByName"
         /\ ret # EOK => (has_uid /\ ~oom)
         /\ req' = [req EXCEPT ![m].st = "freed", ![m].cache_ret = ret,
                               ![m].terminal = @ + 1,
                               ![m].object_path =
                                   IF ret = EOK
                                   THEN ifp_users_build_path_from_msg(StoreDomain, IF has_uid THEN StoreUid ELSE NULL, oom)
                                   ELSE NULL]
         /\ replies' = [replies EXCEPT ![m] =
                Append(@, FindByNameDoneReply(ret, has_uid, oom))]
    /\ UNCHANGED <<regVars, userVars, callVars>>

\* a variant that reports a missing user as a generic failure
find_by_id_done_reply_enoent_as_failed(ret, has_uid, oom) ==
    LET object_path == ifp_users_build_path_from_msg(StoreDomain, IF has_uid THEN StoreUid ELSE NULL, oom) IN
    IF ret # EOK THEN ErrorReply(DBUS_ERROR_FAILED, "Failed to fetch user")
    ELSE ReturnReply(object_path)

\* the reply ifp_users_find_by_id_done sends
FindByIdDoneReply(ret, has_uid, oom) ==
    LET object_path == ifp_users_build_path_from_msg(StoreDomain, IF has_uid THEN StoreUid ELSE NULL, oom) IN
    IF ret = ENOENT THEN ErrorReply(SBUS_ERROR_NOT_FOUND, "User not found")
    ELSE IF ret # EOK THEN ErrorReply(DBUS_ERROR_FAILED, "Failed to fetch user")
    ELSE ReturnReply(object_path)

ifp_users_find_by_id_done ==
    /\ conn_state = "alive"
    /\ \E m \in DOMAIN req, ret \in {EOK, ENOENT, EIO}, has_uid \in BOOLEAN, oom \in BOOLEAN :
         /\ req[m].st = "cache_req"
         /\ req[m].method = "FindByID"
         /\ ret # EOK => (has_uid /\ ~oom)
         /\ req' = [req EXCEPT ![m].st = "freed", ![m].cache_ret = ret,
                               ![m].terminal = @ + 1,
                               ![m].object_path =
                                   IF ret = EOK
                                   THEN ifp_users_build_path_from_msg(StoreDomain, IF has_uid THEN StoreUid ELSE NULL, oom)
                                   ELSE NULL]
         /\ replies' = [replies EXCEPT ![m] =
                Append(@, FindByIdDoneReply(ret, has_uid, oom))]
    /\ UNCHANGED <<regVars, userVars, callVars>>

\* at most this many registrations are made while the dispatcher serves
MaxSetupOps == 1

SetupRegisterIface ==
    /\ nops < MaxSetupOps
    /\ RegisterIface

NextDispatch ==
    \/ SetupRegisterIface
    \/ sbus_message_handler
    \/ sbus_message_handler_got_caller_id
    \/ ifp_users_find_by_name_done
    \/ ifp_users_find_by_id_done

SpecDispatch == Init /\ [][NextDispatch]_vars

(***************************************************************************)
(* Several requests in flight on a connection that serves the Users        *)
(* interface at /o/U and, with other instance data, at /o/U/d.             *)
(***************************************************************************)
\* at most this many requests are in flight together
MaxInFlight == 2

\* the connection after the two registrations that set it up
InFlightSetup ==
    LET r1 == sbus_conn_register_iface(<<>>, {}, IfaceUsers, IFP_PATH_USERS, "ctx1", FALSE)
    IN  sbus_conn_register_iface(r1.table, r1.tree, IfaceUsers, PathUsersDom, "ctx2", FALSE)

InitInFlight ==
    /\ user_env = NoUserEnv
    /\ user_out = NoUserOut
    /\ managed_paths = InFlightSetup.table
    /\ dbus_tree = InFlightSetup.tree
    /\ conn_state = "alive"
    /\ released_keys = {}
    /\ last = [op |-> "register", path |-> PathUsersDom, name |-> IfaceUsers,
               ret |-> InFlightSetup.ret, fresh |-> FALSE]
    /\ nops = 2
    /\ failed_paths = {}
    /\ req = [m \in 1..MaxInFlight |-> NoReq]
    /\ replies = [m \in 1..MaxInFlight |-> <<>>]
    /\ InitCalls

NextInFlight ==
    \/ sbus_message_handler
    \/ sbus_message_handler_got_caller_id
    \/ ifp_users_find_by_name_done
    \/ ifp_users_find_by_id_done
    \/ Release

SpecInFlight == InitInFlight /\ [][NextInFlight]_vars

(***************************************************************************)
(* Registrations made while requests wait for their caller identity, on a  *)
(* connection that serves the Users interface on the subtree /o/U/*.       *)
(***************************************************************************)
\* at most this many registrations are made after the connection was set up
MaxLateOps == 1

\* the connection after the registration that set it up
LateSetup ==
    sbus_conn_register_iface(<<>>, {}, IfaceUsers, IFP_PATH_USERS_TREE, "ctx1", FALSE)

InitLate ==
    /\ user_env = NoUserEnv
    /\ user_out = NoUserOut
    /\ managed_paths = LateSetup.table
    /\ dbus_tree = LateSetup.tree
    /\ conn_state = "alive"
    /\ released_keys = {}
    /\ last = [op |-> "register", path |-> IFP_PATH_USERS_TREE, name |-> IfaceUsers,
               ret |-> LateSetup.ret, fresh |-> FALSE]
    /\ nops = 1
    /\ failed_paths = {}
    /\ req = [m \in MsgIds |-> NoReq]
    /\ replies = [m \in MsgIds |-> <<>>]
    /\ InitCalls

LateRegisterIface ==
    /\ nops < 1 + MaxLateOps
    /\ \E m \in DOMAIN req : req[m].st = "sender_id"
    /\ RegisterIface

NextLate ==
    \/ LateRegisterIface
    \/ sbus_message_handler
    \/ sbus_message_handler_got_caller_id

SpecLate == InitLate /\ [][NextLate]_vars

(***************************************************************************)
(* Reconnection: the bus connection is lost and re-established, and the    *)
(* paths of the registry are registered with the new connection.           *)
(***************************************************************************)
\* at most this many registrations are made on a connection that reconnects
MaxReconnectOps == 2

ReconnectRegisterIface ==
    /\ nops < MaxReconnectOps
    /\ RegisterIface

\* the connection is dropped and re-established: the new DBusConnection
\* holds no registration, the registry is the one it was
Reconnect ==
    /\ conn_state = "alive"
    /\ dbus_tree' = {}
    /\ last' = [op |-> "reconnect", path |-> NULL, name |-> "NULL", ret |-> EOK,
                fresh |-> FALSE]
    /\ UNCHANGED <<managed_paths, conn_state, released_keys, nops, failed_paths,
                   reqVars, userVars, callVars>>

\* the orders hash_keys may return the keys in
KeyOrders(table) ==
    LET n == Cardinality(DOMAIN table) IN
    {f \in [1..n -> DOMAIN table] : \A i, j \in 1..n : f[i] = f[j] => i = j}

\* a variant that registers the first key only and reports success
RECURSIVE register_paths_first_key_only(_, _, _, _, _)
register_paths_first_key_only(table, tree, keys, i, fail_at) ==
    IF i > Len(keys) \/ i > 1 THEN [ret |-> EOK, tree |-> tree]
    ELSE LET r == sbus_conn_register_path(table, tree, keys[i], i = fail_at)
         IN  IF r.ret # EOK THEN r
             ELSE register_paths_first_key_only(table, r.tree, keys, i + 1, fail_at)

\* the loop over the keys, from the i-th on; the transport runs out of
\* memory at the registration of the fail_at-th key (0: never)
RECURSIVE RegisterPathsFrom(_, _, _, _, _)
RegisterPathsFrom(table, tree, keys, i, fail_at) ==
    IF i > Len(keys) THEN [ret |-> EOK, tree |-> tree]
    ELSE LET r == sbus_conn_register_path(table, tree, keys[i], i = fail_at)
         IN  IF r.ret # EOK THEN r
             ELSE RegisterPathsFrom(table, r.tree, keys, i + 1, fail_at)

\* hret_ok: hash_keys could allocate the key array
sbus_conn_reregister_paths ==
    /\ conn_state = "alive"
    /\ \E hret_ok \in BOOLEAN, keys \in KeyOrders(managed_paths) :
         \E fail_at \in 0..Len(keys) :
            LET r == IF hret_ok
                     THEN RegisterPathsFrom(managed_paths, dbus_tree, keys, 1, fail_at)
                     ELSE [ret |-> ENOMEM, tree |-> dbus_tree]
            IN  /\ dbus_tree' = r.tree
                /\ last' = [op |-> "reregister", path |-> NULL, name |-> "NULL",
                            ret |-> r.ret, fresh |-> (dbus_tree = {})]
    /\ UNCHANGED <<managed_paths, conn_state, released_keys, nops, failed_paths,
                   reqVars, userVars, callVars>>

NextReconnect ==
    \/ ReconnectRegisterIface
    \/ Reconnect
    \/ sbus_conn_reregister_paths

SpecReconnect == Init /\ [][NextReconnect]_vars

(***************************************************************************)
(* Per-user property getters.  The identity store is opaque: store is what *)
(* it would answer to each of the queries a getter may make.               *)
(***************************************************************************)
\* at most this many groups are in an initgroups result
MaxGroups == 2

SYSDB_NAME == "name"
SYSDB_UIDNUM == "uidNumber"
SYSDB_GIDNUM == "gidNumber"
SYSDB_GECOS == "gecos"
SYSDB_HOMEDIR == "homeDirectory"
SYSDB_SHELL == "loginShell"

\* the attributes of the user object and the extra attributes a
\* configuration may name, in the order the configuration names them
StdAttrs == {SYSDB_NAME, SYSDB_UIDNUM, SYSDB_GIDNUM, SYSDB_GECOS, SYSDB_HOMEDIR,
             SYSDB_SHELL, "groups"}
ExtraAttrs == <<"mail", "phone">>
AllAttrs == StdAttrs \cup {ExtraAttrs[i] : i \in 1..Len(ExtraAttrs)}

\* the attribute lists a context may allow: none, one, all but one, all
Whitelists ==
    {{}, AllAttrs} \cup {{a} : a \in AllAttrs} \cup {AllAttrs \ {a} : a \in AllAttrs}

\* the prefix of the group objects
IFP_PATH_GROUPS == <<"/", "o", "/", "G">>

\* request paths: a user of the known domain, a path with one part too few,
\* a user of an unknown domain, a uid that is no number
PathUserOtherDom == PathUsersOther \o <<"/", "1">>
PathUserBadUid == PathUsersDom \o <<"/", "x">>
UserPaths == {PathUser, PathUsersDom, PathUserOtherDom, PathUserBadUid}

UserEnvs == [data : InstanceData \cup {DataConn}, whitelist : Whitelists,
             path : UserPaths]

\* user entries of the store: every attribute set, and one without a name
UserFull == [name |-> "alice", uidNumber |-> 1, gidNumber |-> 10,
             gecos |-> "Alice", homeDirectory |-> "/home/alice",
             loginShell |-> "/bin/sh"]
UserNoName == [UserFull EXCEPT !.name = NoString]

\* answers of sysdb_getpwuid_with_views: the return value and res
PwAnswers ==
    {[ret |-> EIO, count |-> 0, msg |-> UserFull],
     [ret |-> EOK, count |-> 0, msg |-> UserFull],
     [ret |-> EOK, count |-> 1, msg |-> UserFull],
     [ret |-> EOK, count |-> 1, msg |-> UserNoName]}

\* gidNumber of the groups of an initgroups result; 0: the entry has none
Gids == {0, 5, 7}
GidLists == UNION {[1..n -> Gids] : n \in 0..MaxGroups}

\* answers of sysdb_initgroups_with_views
InitgrAnswers ==
    {[ret |-> EIO, gids |-> <<>>]} \cup {[ret |-> EOK, gids |-> g] : g \in GidLists}

\* the values of an extra attribute on an entry; <<>>: the entry has no such
\* element
ExtraEntries == [mail : {<<>>, <<"a@x">>}, phone : {<<>>, <<"1", "2">>}]

\* answers of sysdb_search_entry
SearchAnswers ==
    {[ret |-> EIO, count |-> 0, entry |-> [mail |-> <<>>, phone |-> <<>>]]}
    \cup {[ret |-> EOK, count |-> c, entry |-> e] : c \in {0, 1, 2}, e \in ExtraEntries}

Stores == [pw : PwAnswers, initgr : InitgrAnswers, search : SearchAnswers]

\* the stores that differ in the answers to the queries a getter may make:
\* the user entry; the user entry and the groups; the extra attributes
PwStores == {s \in Stores : s.initgr.ret = EIO /\ s.search.ret = EIO}
GroupStores == {s \in Stores : s.search.ret = EIO}
ExtraStores == {s \in Stores : s.initgr.ret = EIO /\ s.pw.ret = EIO}

ifp_is_user_attr_allowed(env, attr) == attr \in env.whitelist

\* the allowed attributes that are no attribute of the user object
ifp_get_user_extra_attributes(env) ==
    SelectSeq(ExtraAttrs, LAMBDA a : a \in env.whitelist)

\* the parts of s between slashes: s is "" or starts with a slash
RECURSIVE SplitParts(_)
SplitParts(s) ==
    IF s = <<>> THEN <<>>
    ELSE LET rest == Tail(s)
             idx == {i \in 1..Len(rest) : rest[i] = "/"}
             stop == IF idx = {} THEN Len(rest) + 1
                     ELSE CHOOSE i \in idx : \A j \in idx : i <= j
         IN  <<SubSeq(rest, 1, stop - 1)>> \o SplitParts(SubSeq(rest, stop, Len(rest)))

EINVAL == "EINVAL"
ERR_DOMAIN_NOT_FOUND == "ERR_DOMAIN_NOT_FOUND"

\* the parts of path below prefix, when there are exactly nparts of them
sbus_opath_decompose_exact(path, prefix, nparts) ==
    IF Len(path) <= Len(prefix) \/ SubSeq(path, 1, Len(prefix)) # prefix
          \/ path[Len(prefix) + 1] # "/"
    THEN [ret |-> EINVAL, parts |-> <<>>]
    ELSE LET parts == SplitParts(SubSeq(path, Len(prefix) + 1, Len(path)))
             un == [i \in 1..Len(parts) |-> sbus_opath_unescape_part(parts[i])]
         IN  IF Len(parts) # nparts \/ \E i \in 1..Len(parts) : parts[i] = <<>>
             THEN [ret |-> EINVAL, parts |-> <<>>]
             ELSE IF \E i \in 1..Len(parts) : ~un[i].ok
             THEN [ret |-> EINVAL, parts |-> <<>>]
             ELSE [ret |-> EOK, parts |-> [i \in 1..Len(parts) |-> un[i].part]]

Digits == <<"0", "1", "2", "3", "4", "5", "6", "7", "8", "9">>

DigitValue(c) == (CHOOSE i \in 1..Len(Digits) : Digits[i] = c) - 1

\* strtouint32(str, NULL, 10): the number and errno
RECURSIVE strtouint32(_)
strtouint32(str) ==
    IF str = <<>> \/ \E i \in 1..Len(str) : \A d \in 1..Len(Digits) : Digits[d] # str[i]
    THEN [errno |-> EINVAL, value |-> 0]
    ELSE IF Len(str) = 1 THEN [errno |-> EOK, value |-> DigitValue(str[1])]
    ELSE [errno |-> EOK,
          value |-> 10 * strtouint32(SubSeq(str, 1, Len(str) - 1)).value
                        + DigitValue(str[Len(str)])]

\* the decimal digits of n, as snprintf("%u") writes them
RECURSIVE UIntToString(_)
UIntToString(n) ==
    IF n < 10 THEN <<Digits[n + 1]>>
    ELSE UIntToString(n \div 10) \o <<Digits[(n % 10) + 1]>>

\* a variant that takes the number strtouint32 returns without looking at
\* errno
decompose_path_ignores_errno(path) ==
    LET Parts(dec) ==
            IF dec.ret # EOK THEN [ret |-> dec.ret, domain |-> NULL, uid |-> 0]
            ELSE IF find_domain_by_name(KnownDomains, dec.parts[1]) = NULL
            THEN [ret |-> ERR_DOMAIN_NOT_FOUND, domain |-> NULL, uid |-> 0]
            ELSE [ret |-> EOK, domain |-> dec.parts[1],
                  uid |-> strtouint32(dec.parts[2]).value]
    IN  Parts(sbus_opath_decompose_exact(path, IFP_PATH_USERS, 2))

ifp_users_decompose_path(path) ==
    LET Uid(dom, uid) ==
            IF uid.errno # EOK
            THEN [ret |-> uid.errno, domain |-> NULL, uid |-> 0]
            ELSE [ret |-> EOK, domain |-> dom, uid |-> uid.value]
        Parts(dec) ==
            IF dec.ret # EOK THEN [ret |-> dec.ret, domain |-> NULL, uid |-> 0]
            ELSE IF find_domain_by_name(KnownDomains, dec.parts[1]) = NULL
            THEN [ret |-> ERR_DOMAIN_NOT_FOUND, domain |-> NULL, uid |-> 0]
            ELSE Uid(dec.parts[1], strtouint32(dec.parts[2]))
    IN  Parts(sbus_opath_decompose_exact(path, IFP_PATH_USERS, 2))

\* want_user: _user is not NULL, the entry of the user is looked up
ifp_users_user_get(env, store, want_user) ==
    LET ret == IF store.pw.ret = EOK /\ store.pw.count = 0 THEN ENOENT
               ELSE store.pw.ret
        Get(dec) ==
            IF dec.ret # EOK
            THEN [ret |-> dec.ret, queries |-> <<>>, domain |-> NULL, uid |-> 0,
                  user |-> UserFull]
            ELSE IF ~want_user
            THEN [ret |-> EOK, queries |-> <<>>, domain |-> dec.domain, uid |-> dec.uid,
                  user |-> UserFull]
            ELSE [ret |-> ret, queries |-> <<[query |-> "getpwuid", answer |-> store.pw]>>,
                  domain |-> dec.domain, uid |-> dec.uid, user |-> store.pw.msg]
    IN  Get(ifp_users_decompose_path(env.path))

ifp_users_get_as_string(env, store, attr) ==
    LET got == ifp_users_user_get(env, store, TRUE) IN
    IF ~IsIfpCtx(env.data) THEN EmptyOut
    ELSE IF ~ifp_is_user_attr_allowed(env, attr) THEN EmptyOut
    ELSE IF got.ret # EOK THEN [EmptyOut EXCEPT !.queries = got.queries]
    ELSE [EmptyOut EXCEPT !.queries = got.queries, !.out_str = got.user[attr]]

ifp_users_get_as_uint32(env, store, attr) ==
    LET got == ifp_users_user_get(env, store, TRUE) IN
    IF ~IsIfpCtx(env.data) THEN EmptyOut
    ELSE IF ~ifp_is_user_attr_allowed(env, attr) THEN EmptyOut
    ELSE IF got.ret # EOK THEN [EmptyOut EXCEPT !.queries = got.queries]
    ELSE [EmptyOut EXCEPT !.queries = got.queries, !.out_u32 = got.user[attr]]

\* the object path of the group with that gidNumber; oom: composing fails
ifp_groups_build_path_from_msg(gid, oom) ==
    IF oom THEN NULL
    ELSE sbus_opath_compose(IFP_PATH_GROUPS, StoreDomain, UIntToString(gid))

\* a variant that asks the store first and the access control afterwards
user_get_groups_query_first(env, store, oom_array, oom_path) ==
    LET got == ifp_users_user_get(env, store, TRUE)
        res == store.initgr
        q1 == got.queries
        q2 == Append(q1, [query |-> "initgroups", answer |-> res])
        out == [i \in 1..Len(res.gids) |->
                   IF res.gids[i] = 0 THEN NULL
                   ELSE ifp_groups_build_path_from_msg(res.gids[i], FALSE)]
    IN  IF ~IsIfpCtx(env.data) THEN EmptyOut
        ELSE IF got.ret # EOK THEN [EmptyOut EXCEPT !.queries = q1]
        ELSE IF got.user[SYSDB_NAME] = NoString THEN [EmptyOut EXCEPT !.queries = q1]
        ELSE IF res.ret # EOK \/ Len(res.gids) = 0
        THEN [EmptyOut EXCEPT !.queries = q2]
        ELSE IF ~ifp_is_user_attr_allowed(env, "groups")
        THEN [EmptyOut EXCEPT !.queries = q2]
        ELSE [EmptyOut EXCEPT !.queries = q2, !.out_paths = out,
                  !.size = Cardinality({i \in 1..Len(res.gids) : res.gids[i] # 0})]

\* a variant that hands out the paths composed so far when the path of a
\* group cannot be composed
user_get_groups_keeps_partial(env, store, oom_array, oom_path) ==
    LET got == ifp_users_user_get(env, store, TRUE)
        res == store.initgr
        q1 == got.queries
        q2 == Append(q1, [query |-> "initgroups", answer |-> res])
        out == [i \in 1..Len(res.gids) |->
                   IF res.gids[i] = 0 \/ (oom_path # 0 /\ i >= oom_path) THEN NULL
                   ELSE ifp_groups_build_path_from_msg(res.gids[i], FALSE)]
    IN  IF ~IsIfpCtx(env.data) THEN EmptyOut
        ELSE IF ~ifp_is_user_attr_allowed(env, "groups") THEN EmptyOut
        ELSE IF got.ret # EOK THEN [EmptyOut EXCEPT !.queries = q1]
        ELSE IF got.user[SYSDB_NAME] = NoString THEN [EmptyOut EXCEPT !.queries = q1]
        ELSE IF res.ret # EOK THEN [EmptyOut EXCEPT !.queries = q2]
        ELSE IF Len(res.gids) = 0 THEN [EmptyOut EXCEPT !.queries = q2]
        ELSE IF oom_array THEN [EmptyOut EXCEPT !.queries = q2]
        ELSE [EmptyOut EXCEPT !.queries = q2, !.out_paths = out,
                  !.size = Cardinality({i \in 1..Len(res.gids) : out[i] # NULL})]

\* oom_array: talloc_zero_array fails; oom_path: the index of the result
\* whose group path cannot be composed (0: none)
UserGetGroups(env, store, oom_array, oom_path) ==
    LET got == ifp_users_user_get(env, store, TRUE)
        res == store.initgr
        q1 == got.queries
        q2 == Append(q1, [query |-> "initgroups", answer |-> res])
        \* out[i] is written for the results with a gid, the others stay NULL
        out == [i \in 1..Len(res.gids) |->
                   IF res.gids[i] = 0 THEN NULL
                   ELSE ifp_groups_build_path_from_msg(res.gids[i], FALSE)]
        num_groups == Cardinality({i \in 1..Len(res.gids) : res.gids[i] # 0})
    IN  IF ~IsIfpCtx(env.data) THEN EmptyOut
        ELSE IF ~ifp_is_user_attr_allowed(env, "groups") THEN EmptyOut
        ELSE IF got.ret # EOK THEN [EmptyOut EXCEPT !.queries = q1]
        ELSE IF got.user[SYSDB_NAME] = NoString THEN [EmptyOut EXCEPT !.queries = q1]
        ELSE IF res.ret # EOK THEN [EmptyOut EXCEPT !.queries = q2]
        ELSE IF Len(res.gids) = 0 THEN [EmptyOut EXCEPT !.queries = q2]
        ELSE IF oom_array THEN [EmptyOut EXCEPT !.queries = q2]
        ELSE IF oom_path \in 1..Len(res.gids) /\ res.gids[oom_path] # 0
        THEN [EmptyOut EXCEPT !.queries = q2]
        ELSE [EmptyOut EXCEPT !.queries = q2, !.out_paths = out, !.size = num_groups]

\* a variant that enters every configured attribute in the table, with no
\* values when the entry has no such element
user_get_extra_attributes_keeps_absent(env, store, oom_filter, oom_table, oom_attr) ==
    LET extra == ifp_get_user_extra_attributes(env)
        got == ifp_users_user_get(env, store, FALSE)
        res == store.search
        q == <<[query |-> "search_entry", attrs |-> extra, answer |-> res]>>
        table == [a \in {extra[i] : i \in 1..Len(extra)} |-> res.entry[a]]
    IN  IF ~IsIfpCtx(env.data) THEN EmptyOut
        ELSE IF Len(extra) = 0 THEN EmptyOut
        ELSE IF got.ret # EOK THEN EmptyOut
        ELSE IF oom_filter THEN EmptyOut
        ELSE IF res.ret # EOK THEN [EmptyOut EXCEPT !.queries = q]
        ELSE IF res.count # 1 THEN [EmptyOut EXCEPT !.queries = q]
        ELSE IF oom_table THEN [EmptyOut EXCEPT !.queries = q]
        ELSE IF oom_attr \in 1..Len(extra) THEN [EmptyOut EXCEPT !.queries = q]
        ELSE [EmptyOut EXCEPT !.queries = q,
                              !.out_table = [set |-> TRUE, map |-> table]]

\* oom_filter: the base DN or the filter cannot be allocated; oom_table:
\* sss_hash_create fails; oom_attr: the index of the extra attribute whose
\* values or key cannot be stored (0: none)
UserGetExtraAttributes(env, store, oom_filter, oom_table, oom_attr) ==
    LET extra == ifp_get_user_extra_attributes(env)
        got == ifp_users_user_get(env, store, FALSE)
        res == store.search
        q == <<[query |-> "search_entry", attrs |-> extra, answer |-> res]>>
        present == {i \in 1..Len(extra) : res.entry[extra[i]] # <<>>}
        table == [a \in {extra[i] : i \in present} |-> res.entry[a]]
    IN  IF ~IsIfpCtx(env.data) THEN EmptyOut
        ELSE IF Len(extra) = 0 THEN EmptyOut
        ELSE IF got.ret # EOK THEN EmptyOut
        ELSE IF oom_filter THEN EmptyOut
        ELSE IF res.ret # EOK THEN [EmptyOut EXCEPT !.queries = q]
        ELSE IF res.count # 1 THEN [EmptyOut EXCEPT !.queries = q]
        ELSE IF oom_table THEN [EmptyOut EXCEPT !.queries = q]
        ELSE IF oom_attr \in present THEN [EmptyOut EXCEPT !.queries = q]
        ELSE [EmptyOut EXCEPT !.queries = q,
                              !.out_table = [set |-> TRUE, map |-> table]]

\* a variant that starts the refresh before it resolves the path
update_groups_list_refresh_first(env, store, oom) ==
    LET got == ifp_users_user_get(env, store, TRUE)
        q == Append(got.queries, [query |-> "initgr_by_name"])
    IN  IF ~IsIfpCtx(env.data)
        THEN [ret |-> ERR_INTERNAL, refresh |-> FALSE, queries |-> <<>>]
        ELSE IF oom THEN [ret |-> ENOMEM, refresh |-> FALSE, queries |-> got.queries]
        ELSE IF got.ret # EOK THEN [ret |-> got.ret, refresh |-> TRUE, queries |-> q]
        ELSE IF got.user[SYSDB_NAME] = NoString
        THEN [ret |-> ERR_INTERNAL, refresh |-> TRUE, queries |-> q]
        ELSE [ret |-> EOK, refresh |-> TRUE, queries |-> q]

\* what the handler of UpdateGroupsList returns and whether it has started
\* the refresh of the groups of the user (cache_req_initgr_by_name_send);
\* oom: the refresh cannot be allocated
UserUpdateGroupsList(env, store, oom) ==
    LET got == ifp_users_user_get(env, store, TRUE)
        q == Append(got.queries, [query |-> "initgr_by_name"])
    IN  IF ~IsIfpCtx(env.data)
        THEN [ret |-> ERR_INTERNAL, refresh |-> FALSE, queries |-> <<>>]
        ELSE IF got.ret # EOK
        THEN [ret |-> got.ret, refresh |-> FALSE, queries |-> got.queries]
        ELSE IF got.user[SYSDB_NAME] = NoString
        THEN [ret |-> ERR_INTERNAL, refresh |-> FALSE, queries |-> got.queries]
        ELSE IF oom THEN [ret |-> ENOMEM, refresh |-> FALSE, queries |-> got.queries]
        ELSE [ret |-> EOK, refresh |-> TRUE, queries |-> q]

\* the request arrives: the instance data, what its context allows, the path
InitUser ==
    /\ user_env \in UserEnvs
    /\ user_out = NoUserOut
    /\ managed_paths = <<>>
    /\ dbus_tree = {}
    /\ conn_state = "alive"
    /\ released_keys = {}
    /\ last = NoOp
    /\ nops = 0
    /\ failed_paths = {}
    /\ req = [m \in MsgIds |-> NoReq]
    /\ replies = [m \in MsgIds |-> <<>>]
    /\ InitCalls

\* One getter is called for a request (a Get of one property); user_out is
\* the getter called and what it left in its out parameters.
ifp_users_user_get_name ==
    /\ user_env # NoUserEnv
    /\ user_out = NoUserOut
    /\ \E store \in PwStores :
         user_out' = [getter |-> "name",
                      res |-> ifp_users_get_as_string(user_env, store, SYSDB_NAME)]
    /\ UNCHANGED <<regVars, reqVars, user_env, callVars>>

ifp_users_user_get_uid_number ==
    /\ user_env # NoUserEnv
    /\ user_out = NoUserOut
    /\ \E store \in PwStores :
         user_out' = [getter |-> "uidNumber",
                      res |-> ifp_users_get_as_uint32(user_env, store, SYSDB_UIDNUM)]
    /\ UNCHANGED <<regVars, reqVars, user_env, callVars>>

ifp_users_user_get_gid_number ==
    /\ user_env # NoUserEnv
    /\ user_out = NoUserOut
    /\ \E store \in PwStores :
         user_out' = [getter |-> "gidNumber",
                      res |-> ifp_users_get_as_uint32(user_env, store, SYSDB_GIDNUM)]
    /\ UNCHANGED <<regVars, reqVars, user_env, callVars>>

ifp_users_user_get_gecos ==
    /\ user_env # NoUserEnv
    /\ user_out = NoUserOut
    /\ \E store \in PwStores :
         user_out' = [getter |-> "gecos",
                      res |-> ifp_users_get_as_string(user_env, store, SYSDB_GECOS)]
    /\ UNCHANGED <<regVars, reqVars, user_env, callVars>>

ifp_users_user_get_home_directory ==
    /\ user_env # NoUserEnv
    /\ user_out = NoUserOut
    /\ \E store \in PwStores :
         user_out' = [getter |-> "homeDirectory",
                      res |-> ifp_users_get_as_string(user_env, store, SYSDB_HOMEDIR)]
    /\ UNCHANGED <<regVars, reqVars, user_env, callVars>>

ifp_users_user_get_login_shell ==
    /\ user_env # NoUserEnv
    /\ user_out = NoUserOut
    /\ \E store \in PwStores :
         user_out' = [getter |-> "loginShell",
                      res |-> ifp_users_get_as_string(user_env, store, SYSDB_SHELL)]
    /\ UNCHANGED <<regVars, reqVars, user_env, callVars>>

ifp_users_user_get_groups ==
    /\ user_env # NoUserEnv
    /\ user_out = NoUserOut
    /\ \E store \in GroupStores, oom_array \in BOOLEAN, oom_path \in 0..MaxGroups :
         user_out' = [getter |-> "groups",
                      res |-> UserGetGroups(user_env, store, oom_array, oom_path)]
    /\ UNCHANGED <<regVars, reqVars, user_env, callVars>>

ifp_users_user_get_extra_attributes ==
    /\ user_env # NoUserEnv
    /\ user_out = NoUserOut
    /\ \E store \in ExtraStores, oom_filter \in BOOLEAN, oom_table \in BOOLEAN,
          oom_attr \in 0..Len(ExtraAttrs) :
         user_out' = [getter |-> "extraAttributes",
                      res |-> UserGetExtraAttributes(user_env, store, oom_filter, oom_table,
                                                  oom_attr)]
    /\ UNCHANGED <<regVars, reqVars, user_env, callVars>>

\* the method UpdateGroupsList is called on the user object
ifp_users_user_update_groups_list ==
    /\ user_env # NoUserEnv
    /\ user_out = NoUserOut
    /\ \E store \in PwStores, oom \in BOOLEAN :
         user_out' = [getter |-> "UpdateGroupsList",
                      res |-> UserUpdateGroupsList(user_env, store, oom)]
    /\ UNCHANGED <<regVars, reqVars, user_env, callVars>>

\* a variant that answers Failed also when the store has no such user
update_groups_list_done_enoent_as_failed(ret) ==
    [recv_ret |-> ret, terminal |-> 1,
     replies |-> <<IF ret # EOK
                   THEN ErrorReply(DBUS_ERROR_FAILED, "Failed to fetch user")
                   ELSE ReturnReply(NULL)>>]

\* what the continuation of the refresh does with the request: ret is what
\* cache_req_initgr_by_name_recv returns; the success reply has no arguments
UserUpdateGroupsListDone(ret) ==
    [recv_ret |-> ret, terminal |-> 1,
     replies |-> <<IF ret = ENOENT
                   THEN ErrorReply(SBUS_ERROR_NOT_FOUND, "User not found")
                   ELSE IF ret # EOK
                   THEN ErrorReply(DBUS_ERROR_FAILED, "Failed to fetch user")
                   ELSE ReturnReply(NULL)>>]

\* the refresh UpdateGroupsList has started completes
ifp_users_user_update_groups_list_done ==
    /\ user_out.getter = "UpdateGroupsList"
    /\ user_out.res.refresh
    /\ \E ret \in {EOK, ENOENT, EIO, ENOMEM} :
         user_out' = [getter |-> "UpdateGroupsList_done",
                      res |-> UserUpdateGroupsListDone(ret)]
    /\ UNCHANGED <<regVars, reqVars, user_env, callVars>>

NextUser ==
    \/ ifp_users_user_update_groups_list
    \/ ifp_users_user_update_groups_list_done
    \/ ifp_users_user_get_name
    \/ ifp_users_user_get_uid_number
    \/ ifp_users_user_get_gid_number
    \/ ifp_users_user_get_gecos
    \/ ifp_users_user_get_home_directory
    \/ ifp_users_user_get_login_shell
    \/ ifp_users_user_get_groups
    \/ ifp_users_user_get_extra_attributes

SpecUser == InitUser /\ [][NextUser]_vars

(***************************************************************************)
(* Enumeration of the interfaces supported on an object path.              *)
(***************************************************************************)
\* at most this many registrations are made before interfaces are enumerated
MaxSupportedOps == 2

\* the copy of the list of one entry, from the i-th item on: an item whose
\* name the copy holds already is passed over, DLIST_ADD puts the others at
\* the head of the copy
RECURSIVE IfaceListCopyFrom(_, _, _)
IfaceListCopyFrom(list, i, new_list) ==
    IF i > Len(list) THEN new_list
    ELSE IF sbus_iface_list_lookup(new_list, list[i].name) # NoIface
    THEN IfaceListCopyFrom(list, i + 1, new_list)
    ELSE IfaceListCopyFrom(list, i + 1, <<list[i]>> \o new_list)

sbus_iface_list_copy(list) == IfaceListCopyFrom(list, 1, <<>>)

\* the loop over lookup_path and its parents; list is what was gathered so
\* far, the copy of each entry found is concatenated to its end
RECURSIVE LookupSupportedFrom(_, _, _)
LookupSupportedFrom(table, lookup_path, list) ==
    IF lookup_path = NULL THEN list
    ELSE LookupSupportedFrom(table, sbus_opath_parent_subtree(lookup_path),
             IF lookup_path \in DOMAIN table
             THEN list \o sbus_iface_list_copy(table[lookup_path])
             ELSE list)

\* oom: a talloc context, the copy of the path or an item of a copy cannot
\* be allocated
sbus_opath_hash_lookup_supported(table, object_path, oom) ==
    IF oom THEN [ret |-> ENOMEM, list |-> <<>>]
    ELSE [ret |-> EOK, list |-> LookupSupportedFrom(table, object_path, <<>>)]

SupportedRegisterIface ==
    /\ nops < MaxSupportedOps
    /\ RegisterIface

LookupSupported ==
    /\ conn_state = "alive"
    /\ \E object_path \in MsgPaths, oom \in BOOLEAN :
         LET r == sbus_opath_hash_lookup_supported(managed_paths, object_path, oom)
         IN  supported' = [path |-> object_path, ret |-> r.ret, list |-> r.list]
    /\ UNCHANGED <<regVars, reqVars, userVars, opath, upath, doms>>

NextSupported ==
    \/ SupportedRegisterIface
    \/ LookupSupported

SpecSupported == Init /\ [][NextSupported]_vars

(***************************************************************************)
(* The path utilities applied to arbitrary paths.                          *)
(***************************************************************************)
\* the longest path looked at
MaxPathLen == 5

PathChars == {"/", "a", "*"}

\* the strings that begin with a slash, valid object paths or not
PathStrings ==
    {p \in UNION {[1..n -> PathChars] : n \in 1..MaxPathLen} : p[1] = "/"}

\* the callers leave the other variables as Init does
InitPath ==
    /\ user_env = NoUserEnv
    /\ user_out = NoUserOut
    /\ managed_paths = <<>>
    /\ dbus_tree = {}
    /\ conn_state = "alive"
    /\ released_keys = {}
    /\ last = NoOp
    /\ nops = 0
    /\ failed_paths = {}
    /\ req = [m \in MsgIds |-> NoReq]
    /\ replies = [m \in MsgIds |-> <<>>]
    /\ supported = NoCall.supported
    /\ upath = NoCall.upath
    /\ doms = NoCall.doms
    /\ \E p \in PathStrings : opath = [NoCall.opath EXCEPT !.start = p, !.cur = p]

\* one turn of the loop of a lookup: lookup_path = parent_subtree(lookup_path)
ParentSubtreeStep ==
    /\ opath.cur # NULL
    /\ opath.steps <= MaxPathLen
    /\ opath' = [opath EXCEPT !.cur = sbus_opath_parent_subtree(opath.cur),
                               !.steps = @ + 1]
    /\ UNCHANGED <<regVars, reqVars, userVars, supported, upath, doms>>

\* the base of the path, the base of its base, and whether the subtree path
\* of its base is a subtree path
GetBasePath ==
    /\ opath.start # NULL
    /\ ~opath.based
    /\ LET base == sbus_opath_get_base_path(opath.start) IN
       opath' = [opath EXCEPT
                    !.based = TRUE,
                    !.base = base,
                    !.base_base = sbus_opath_get_base_path(base),
                    !.base_tree_is_subtree = sbus_opath_is_subtree(base \o <<"/", "*">>)]
    /\ UNCHANGED <<regVars, reqVars, userVars, supported, upath, doms>>

NextPath ==
    \/ ParentSubtreeStep
    \/ GetBasePath

SpecPath == InitPath /\ [][NextPath]_vars

(***************************************************************************)
(* The object path of a user: built for a reply, decomposed again when a   *)
(* call arrives on it.                                                     *)
(***************************************************************************)
\* the largest uid a path is built for
MaxUid == 10

InitUserPath ==
    /\ user_env = NoUserEnv
    /\ user_out = NoUserOut
    /\ managed_paths = <<>>
    /\ dbus_tree = {}
    /\ conn_state = "alive"
    /\ released_keys = {}
    /\ last = NoOp
    /\ nops = 0
    /\ failed_paths = {}
    /\ req = [m \in MsgIds |-> NoReq]
    /\ replies = [m \in MsgIds |-> <<>>]
    /\ supported = NoCall.supported
    /\ opath = NoCall.opath
    /\ doms = NoCall.doms
    /\ \E d \in KnownDomains, u \in 0..MaxUid :
         upath = [NoCall.upath EXCEPT !.domain = d, !.uid = u]

\* has_uid: the entry of the user carries a uidNumber; oom: composing fails
BuildUserPath ==
    /\ upath.st = "new"
    /\ upath.domain # NULL
    /\ \E has_uid \in BOOLEAN, oom \in BOOLEAN :
         upath' = [upath EXCEPT
             !.st = "built",
             !.path = ifp_users_build_path_from_msg(upath.domain,
                          IF has_uid THEN UIntToString(upath.uid) ELSE NULL, oom)]
    /\ UNCHANGED <<regVars, reqVars, userVars, supported, opath, doms>>

\* a call arrives on the path a reply carried
DecomposeUserPath ==
    /\ upath.st = "built"
    /\ upath.path # NULL
    /\ upath' = [upath EXCEPT !.st = "decomposed",
                               !.dec = ifp_users_decompose_path(upath.path)]
    /\ UNCHANGED <<regVars, reqVars, userVars, supported, opath, doms>>

NextUserPath ==
    \/ BuildUserPath
    \/ DecomposeUserPath

SpecUserPath == InitUserPath /\ [][NextUserPath]_vars

(***************************************************************************)
(* Calls that arrive on arbitrary object paths: the path of the request is *)
(* resolved to a user as every getter and UpdateGroupsList resolve it.     *)
(***************************************************************************)
\* the largest number of segments a request path has below its prefix
MaxSegments == 3

\* the segments of request paths: the known domain and an unknown one,
\* numbers, a word, a number followed by a letter, the empty segment
Segments == {<<"d">>, <<"e">>, <<"1">>, <<"1", "0">>, <<"x">>, <<"1", "x">>, <<>>}

\* the path that has these segments below the prefix
RECURSIVE RequestPath(_, _)
RequestPath(prefix, segs) ==
    IF segs = <<>> THEN prefix
    ELSE RequestPath(prefix \o <<"/">> \o Head(segs), Tail(segs))

\* the prefixes and the segment lists request paths are made of
RequestPrefixes == {IFP_PATH_USERS, IFP_PATH_GROUPS}
RequestSegments == UNION {[1..n -> Segments] : n \in 0..MaxSegments}

InitRequestPath ==
    /\ user_env = NoUserEnv
    /\ user_out = NoUserOut
    /\ managed_paths = <<>>
    /\ dbus_tree = {}
    /\ conn_state = "alive"
    /\ released_keys = {}
    /\ last = NoOp
    /\ nops = 0
    /\ failed_paths = {}
    /\ req = [m \in MsgIds |-> NoReq]
    /\ replies = [m \in MsgIds |-> <<>>]
    /\ supported = NoCall.supported
    /\ opath = NoCall.opath
    /\ doms = NoCall.doms
    /\ \E prefix \in RequestPrefixes, segs \in RequestSegments :
         upath = [NoCall.upath EXCEPT !.st = "request", !.prefix = prefix,
                                      !.segs = segs,
                                      !.path = RequestPath(prefix, segs)]

\* ifp_users_user_get for the path of the request; the store has the user
\* or not, or fails
ResolveRequestPath ==
    /\ upath.st = "request"
    /\ \E store \in PwStores :
         upath' = [upath EXCEPT
             !.st = "resolved",
             !.dec = ifp_users_user_get([data |-> "ctx1", whitelist |-> {},
                                         path |-> upath.path], store, TRUE)]
    /\ UNCHANGED <<regVars, reqVars, userVars, supported, opath, doms>>

SpecRequestPath == InitRequestPath /\ [][ResolveRequestPath]_vars

(***************************************************************************)
(* Lookups in a list of domains, as the tests of the utility functions     *)
(* make them (src/src/tests/cmocka/test_utils.c).                          *)
(***************************************************************************)
\* the number of domains of the list
DomCount == 4

\* the c-th domain: DOMNAME_TMPL, FLATNAME_TMPL and SID_TMPL written with c
NewDom(c) == [c |-> c, name |-> <<"name_", c, ".dom">>, flat_name |-> <<"name_", c>>,
              domain_id |-> <<"S-1-5-21-1-2-", c>>, disabled |-> FALSE]

\* a variant that adds every domain at the end of the list
RECURSIVE setup_dom_list_add_end(_, _)
setup_dom_list_add_end(c, dom_list) ==
    IF c >= DomCount THEN dom_list
    ELSE setup_dom_list_add_end(c + 1, dom_list \o <<NewDom(c)>>)

\* the loop of the setup from the c-th domain on: DLIST_ADD puts the domain
\* at the head of the list
RECURSIVE setup_dom_list(_, _)
setup_dom_list(c, dom_list) ==
    IF c >= DomCount THEN dom_list
    ELSE setup_dom_list(c + 1, <<NewDom(c)>> \o dom_list)

\* the first domain of the list that is not disabled and has that name, or,
\* with match_any, that flat name
find_subdomain_by_name(dom_list, name, match_any) ==
    LET hits == {i \in 1..Len(dom_list) :
                    /\ ~dom_list[i].disabled
                    /\ \/ dom_list[i].name = name
                       \/ match_any /\ dom_list[i].flat_name = name}
    IN  IF hits = {} THEN NoDom
        ELSE dom_list[CHOOSE i \in hits : \A j \in hits : i <= j]

\* the first domain of the list that is not disabled and has that SID
find_subdomain_by_sid(dom_list, sid) ==
    LET hits == {i \in 1..Len(dom_list) :
                    ~dom_list[i].disabled /\ dom_list[i].domain_id = sid}
    IN  IF hits = {} THEN NoDom
        ELSE dom_list[CHOOSE i \in hits : \A j \in hits : i <= j]

InitDomains ==
    /\ user_env = NoUserEnv
    /\ user_out = NoUserOut
    /\ managed_paths = <<>>
    /\ dbus_tree = {}
    /\ conn_state = "alive"
    /\ released_keys = {}
    /\ last = NoOp
    /\ nops = 0
    /\ failed_paths = {}
    /\ req = [m \in MsgIds |-> NoReq]
    /\ replies = [m \in MsgIds |-> <<>>]
    /\ supported = NoCall.supported
    /\ opath = NoCall.opath
    /\ upath = NoCall.upath
    /\ doms = [NoCall.doms EXCEPT !.list = setup_dom_list(0, <<>>)]

\* dom->disabled = true for the domain n steps from the head of the list;
\* the tests disable the one DomCount/2 steps from the head
DisableDomain ==
    /\ doms.list # <<>>
    /\ doms.by = "none"
    /\ \E n \in 0..(DomCount - 1) :
         /\ ~doms.list[n + 1].disabled
         /\ doms' = [doms EXCEPT !.list[n + 1].disabled = TRUE]
    /\ UNCHANGED <<regVars, reqVars, userVars, supported, opath, upath>>

\* find_subdomain_by_name called with the name or the flat name of the
\* c-th domain
FindSubdomainByName ==
    /\ doms.list # <<>>
    /\ \E c \in 0..(DomCount - 1), by \in {"name", "flat_name"}, match_any \in BOOLEAN :
         doms' = [doms EXCEPT !.by = by, !.c = c, !.match_any = match_any,
                     !.dom = find_subdomain_by_name(doms.list, NewDom(c)[by], match_any)]
    /\ UNCHANGED <<regVars, reqVars, userVars, supported, opath, upath>>

\* find_subdomain_by_sid called with the SID of the c-th domain
FindSubdomainBySid ==
    /\ doms.list # <<>>
    /\ \E c \in 0..(DomCount - 1) :
         doms' = [doms EXCEPT !.by = "sid", !.c = c, !.match_any = FALSE,
                     !.dom = find_subdomain_by_sid(doms.list, NewDom(c).domain_id)]
    /\ UNCHANGED <<regVars, reqVars, userVars, supported, opath, upath>>

NextDomains ==
    \/ DisableDomain
    \/ FindSubdomainByName
    \/ FindSubdomainBySid

SpecDomains == InitDomains /\ [][NextDomains]_vars

(***************************************************************************)
(* Properties.                                                             *)
(***************************************************************************)
IfaceNames(list) == {list[i].name : i \in 1..Len(list)}

HasIface(table, key, name) ==
    key \in DOMAIN table /\ name \in IfaceNames(table[key])

\* the interface record of that name in the entry at key
IfaceAt(table, key, name) ==
    table[key][CHOOSE i \in 1..Len(table[key]) : table[key][i].name = name]

\* the ancestor subtree paths of p, nearest first, from the positions of
\* the slashes of p without its trailing "/*"
AncestorSubtrees(p) ==
    LET b == IF Len(p) >= 2 /\ SubSeq(p, Len(p) - 1, Len(p)) = <<"/", "*">>
             THEN (IF Len(p) = 2 THEN <<"/">> ELSE SubSeq(p, 1, Len(p) - 2))
             ELSE p
        slashes == {i \in 1..Len(b) : b[i] = "/"}
        n == Cardinality(slashes)
        \* the k-th slash from the right
        nth(k) == CHOOSE i \in slashes : Cardinality({j \in slashes : j >= i}) = k
    IN  IF Len(b) = 1 THEN <<>>
        ELSE [k \in 1..n |-> SubSeq(b, 1, nth(k)) \o <<"*">>]

\* the paths a lookup is asked about
LookupPaths == MsgPaths \cup RegPaths

\* name is registered at the subtree path tree and nowhere else
OnlyAtSubtree(table, name, tree) ==
    /\ HasIface(table, tree, name)
    /\ \A k \in DOMAIN table : k # tree => name \notin IfaceNames(table[k])

\* the dispatcher handles message m in this step
Delivered(m) == req[m].st \in {"new", "need_memory"} /\ req'[m] # req[m]

\* FindByName for the Users interface arrives on path while the interface
\* is registered at IFP_PATH_USERS_TREE only
C1_Case(m, path) ==
    /\ Delivered(m)
    /\ req'[m].path = path
    /\ req'[m].iface = IfaceUsers
    /\ req'[m].member = "FindByName"
    /\ OnlyAtSubtree(managed_paths, IfaceUsers, IFP_PATH_USERS_TREE)

\* FindByName finishes with a store hit in this step
C1_Answered(m) ==
    /\ req[m].st = "cache_req"
    /\ req[m].method = "FindByName"
    /\ req'[m].st = "freed"
    /\ replies'[m][Len(replies'[m])].kind = "return"
    /\ replies'[m][Len(replies'[m])].path # NULL

\* C1 as stated: with Users registered only at P/*, a FindByName delivered
\* on the prefix P itself resolves to that registration (a request is
\* created for it), and a store hit is answered with P/dom/uid.
C1_PrefixResolves ==
    [][\A m \in MsgIds :
        /\ C1_Case(m, IFP_PATH_USERS) =>
              /\ req'[m].st \in {"sender_id", "need_memory"}
              /\ req'[m].st = "sender_id" =>
                    req'[m].intf = IfaceAt(managed_paths, IFP_PATH_USERS_TREE, IfaceUsers)
        /\ C1_Answered(m) =>
              replies'[m][Len(replies'[m])].path = IFP_PATH_USERS \o <<"/", "d", "/", "1">>
      ]_vars

\* C1 amended: with Users registered only at P/*, a FindByName delivered on
\* a path below P resolves to that registration (a request bound to it is
\* created) and a store hit is answered with P/dom/uid; a FindByName
\* delivered on P itself is not resolved and is answered with UnknownMethod.
C1_SubtreeResolvesBelowPrefix ==
    [][\A m \in MsgIds :
        /\ C1_Case(m, IFP_PATH_USERS) =>
              /\ req'[m].st = "unknown"
              /\ replies'[m] = <<ErrorReply(DBUS_ERROR_UNKNOWN_METHOD, "")>>
        /\ \A path \in DeliveryPaths \ {IFP_PATH_USERS} :
              C1_Case(m, path) =>
                 /\ req'[m].st \in {"sender_id", "need_memory"}
                 /\ req'[m].st = "sender_id" =>
                       req'[m].intf = IfaceAt(managed_paths, IFP_PATH_USERS_TREE, IfaceUsers)
        /\ C1_Answered(m) =>
              replies'[m][Len(replies'[m])].path = IFP_PATH_USERS \o <<"/", "d", "/", "1">>
      ]_vars

\* a FindByName that arrived below P was resolved to the P/* registration
\* and answered with the user's object path
C1_Witness ==
    \E m \in MsgIds :
        /\ OnlyAtSubtree(managed_paths, IfaceUsers, IFP_PATH_USERS_TREE)
        /\ req[m].path = PathUsersDom
        /\ req[m].method = "FindByName"
        /\ req[m].intf.path = IFP_PATH_USERS_TREE
        /\ req[m].st = "freed"
        /\ replies[m] = <<ReturnReply(PathUser)>>

C3_RegistryTransportParity ==
    \A key \in DOMAIN managed_paths :
        DBusRegistered(dbus_tree, sbus_opath_get_base_path(key))

\* C4: after register_interface returned success the transport holds a
\* registration at the base of the path; after the registry is released it
\* holds none for any path the registry had.
C4_SuccessMeansRegistered ==
    /\ (last.op = "register" /\ last.ret = EOK) =>
           DBusRegistered(dbus_tree, sbus_opath_get_base_path(last.path))
    /\ (conn_state = "destroying" /\ DOMAIN managed_paths = {}) =>
           \A key \in released_keys :
               ~DBusRegistered(dbus_tree, sbus_opath_get_base_path(key))

\* C5: the transport never holds an object and a fallback registration for
\* the same path, and once P and P/* are both keys of the registry it holds
\* exactly the fallback on P.
C5_OnlyFallbackOnPrefix ==
    /\ \A r1 \in dbus_tree, r2 \in dbus_tree : r1.path = r2.path => r1 = r2
    /\ \A key \in DOMAIN managed_paths :
          (sbus_opath_is_subtree(key) /\ sbus_opath_get_base_path(key) \in DOMAIN managed_paths) =>
              {r \in dbus_tree : r.path = sbus_opath_get_base_path(key)}
                  = {[path |-> sbus_opath_get_base_path(key), fallback |-> TRUE]}

\* C6: every registry entry that holds an interface also holds the
\* introspection interface.
C6_IntrospectionEverywhere ==
    \A key \in DOMAIN managed_paths :
        Len(managed_paths[key]) > 0 => IfaceIntrospect \in IfaceNames(managed_paths[key])

\* C7: no interface list of the registry holds two interfaces of one name.
C7_UniqueNames ==
    \A key \in DOMAIN managed_paths :
        \A i, j \in 1..Len(managed_paths[key]) :
            managed_paths[key][i].name = managed_paths[key][j].name => i = j

\* a duplicate registration was refused at an entry that holds two interfaces
C7_Witness ==
    /\ last.op = "register"
    /\ last.ret = EEXIST
    /\ last.path \in DOMAIN managed_paths
    /\ Len(managed_paths[last.path]) >= 2

\* C8: an interface registered at p and at an ancestor subtree resolves, for
\* p, to the registration made at p; a path without an entry of its own
\* resolves to the registration of its nearest ancestor subtree.
C8_NearestWins ==
    /\ \A p \in DOMAIN managed_paths : \A i \in 1..Len(managed_paths[p]) :
          /\ sbus_opath_hash_lookup_iface(managed_paths, p, managed_paths[p][i].name).path = p
          /\ sbus_opath_hash_lookup_iface(managed_paths, p, managed_paths[p][i].name)
                 \in {managed_paths[p][j] : j \in 1..Len(managed_paths[p])}
    /\ \A q \in LookupPaths \ DOMAIN managed_paths :
          \A name \in {IfaceUsers, IfaceIntrospect} :
              (AncestorSubtrees(q) # <<>> /\ HasIface(managed_paths, AncestorSubtrees(q)[1], name)) =>
                  sbus_opath_hash_lookup_iface(managed_paths, q, name)
                      = IfaceAt(managed_paths, AncestorSubtrees(q)[1], name)

\* Users is registered at /o/U/d and at /o/U/*, and /o/U/e has no entry
C8_Witness ==
    /\ HasIface(managed_paths, PathUsersDom, IfaceUsers)
    /\ HasIface(managed_paths, IFP_PATH_USERS_TREE, IfaceUsers)
    /\ PathUsersOther \notin DOMAIN managed_paths
    /\ sbus_opath_hash_lookup_iface(managed_paths, PathUsersDom, IfaceUsers).path = PathUsersDom
    /\ sbus_opath_hash_lookup_iface(managed_paths, PathUsersOther, IfaceUsers).path
           = IFP_PATH_USERS_TREE

\* the probes of a lookup on p: p, then its ancestor subtrees, nearest first
Probes(p) == <<p>> \o AncestorSubtrees(p)

\* the interface of the first probe whose entry holds name, if any
FirstMatch(table, probes, name) ==
    LET hits == {i \in 1..Len(probes) : HasIface(table, probes[i], name)} IN
    IF hits = {} THEN NoIface
    ELSE IfaceAt(table, probes[CHOOSE i \in hits : \A j \in hits : i <= j], name)

\* C9: lookup_iface returns the interface of the first of the probes (exact
\* path, then ancestor subtrees nearest first) whose entry holds the name,
\* passing over entries that lack it, and none only if no probe holds it.
C9_FirstProbeWins ==
    \A p \in LookupPaths : \A name \in {IfaceUsers, IfaceIntrospect} :
        sbus_opath_hash_lookup_iface(managed_paths, p, name)
            = FirstMatch(managed_paths, Probes(p), name)

\* /o/U/d has an entry without Users, and Users is found for /o/U/d and
\* for /o/U/d/1 (two levels down) at /o/U/*
C9_Witness ==
    /\ PathUsersDom \in DOMAIN managed_paths
    /\ ~HasIface(managed_paths, PathUsersDom, IfaceUsers)
    /\ sbus_opath_hash_lookup_iface(managed_paths, PathUsersDom, IfaceUsers).path
           = IFP_PATH_USERS_TREE
    /\ sbus_opath_hash_lookup_iface(managed_paths, PathUser, IfaceUsers).path
           = IFP_PATH_USERS_TREE

\* register_interface is called, in this step, for a name the entry at the
\* path already holds
C10_Case ==
    /\ nops' = nops + 1
    /\ last'.op = "register"
    /\ HasIface(managed_paths, last'.path, last'.name)

\* C10: registering a name the entry at the path already holds returns
\* EEXIST and changes neither the registry nor the transport, and the
\* earlier registration is still what a lookup on the path returns.
C10_DuplicateRejected ==
    [][C10_Case =>
          /\ last'.ret = EEXIST
          /\ managed_paths' = managed_paths
          /\ dbus_tree' = dbus_tree
          /\ sbus_opath_hash_lookup_iface(managed_paths', last'.path, last'.name)
                 = IfaceAt(managed_paths, last'.path, last'.name)
      ]_vars

\* a second registration of Users at a path was refused, and the path
\* still resolves to the first one and is live at the transport
C10_Witness ==
    /\ last.op = "register"
    /\ last.ret = EEXIST
    /\ last.name = IfaceUsers
    /\ HasIface(managed_paths, last.path, IfaceUsers)
    /\ sbus_opath_hash_lookup_iface(managed_paths, last.path, IfaceUsers).path = last.path
    /\ DBusRoutes(dbus_tree, sbus_opath_get_base_path(last.path))

\* a request context exists for message m (the dispatcher created it and
\* started the caller-identity resolution)
HasContext(m) == req[m].st \in {"sender_id", "cache_req", "returned", "freed"}

C12_SuccessMeansReplyOrContinuation ==
    \A m \in MsgIds :
        req[m].handler_ret = EOK =>
            \/ req[m].terminal = 1
            \/ req[m].st = "cache_req"

\* C13: in FindByName and FindByID, when the store query succeeded and the
\* object path could not be composed, the request is answered with the
\* Internal error and with no success reply.
C13_ComposeFailureIsInternalError ==
    \A m \in MsgIds :
        (req[m].cache_ret = EOK /\ req[m].object_path = NULL) =>
            /\ replies[m] = <<ErrorReply(SBUS_ERROR_INTERNAL,
                                         "Failed to compose object path")>>
            /\ \A i \in 1..Len(replies[m]) : replies[m][i].kind # "return"

\* C14: in FindByName and FindByID, when the store reports no such user the
\* only reply is the NotFound error "User not found", and on any other store
\* error the only reply is a Failed error; no success reply is sent.
C14_StoreErrorsMapToErrorReplies ==
    \A m \in MsgIds :
        /\ req[m].cache_ret = ENOENT =>
              replies[m] = <<[kind |-> "error", name |-> SBUS_ERROR_NOT_FOUND,
                              text |-> "User not found", path |-> NULL]>>
        /\ req[m].cache_ret \notin {"none", EOK, ENOENT} =>
              /\ Len(replies[m]) = 1
              /\ replies[m][1].kind = "error"
              /\ replies[m][1].name = DBUS_ERROR_FAILED

\* FindByID was answered NotFound after the store reported no such user
C14_Witness ==
    \E m \in MsgIds :
        /\ req[m].method = "FindByID"
        /\ req[m].cache_ret = ENOENT
        /\ req[m].st = "freed"
        /\ replies[m][1].name = SBUS_ERROR_NOT_FOUND

\* the methods of the interface that have a handler in its vtable
HandledMethods(iface_name) ==
    IF iface_name = IfaceUsers THEN UsersMethods ELSE {}

\* C17: a message for which no interface is found at the path or its
\* ancestor subtrees, or whose member is no method of the interface, or
\* whose method has no handler in the vtable, is answered with UnknownMethod
\* and handled: no request context is created and no caller-identity
\* resolution is started.
C17_UnknownMethodWithoutRequest ==
    [][\A m \in MsgIds :
        (/\ Delivered(m)
         /\ \/ FirstMatch(managed_paths, Probes(req'[m].path), req'[m].iface) = NoIface
            \/ req'[m].member \notin HandledMethods(req'[m].iface)) =>
            /\ req'[m].st = "unknown"
            /\ replies'[m] = Append(replies[m], ErrorReply(DBUS_ERROR_UNKNOWN_METHOD, ""))
            /\ req'[m].intf = NoIface
            /\ req'[m].method = "NULL"
            /\ req'[m].client = "unset"
            /\ req'[m].sender_ret = "none"
            /\ req'[m].terminal = 0
      ]_vars

\* a call of the method without a handler, on a path where its interface is
\* registered, was answered with UnknownMethod
C17_Witness ==
    \E m \in MsgIds :
        /\ req[m].st = "unknown"
        /\ req[m].member \in UnsetMethods
        /\ sbus_opath_hash_lookup_iface(managed_paths, req[m].path, req[m].iface) # NoIface
        /\ replies[m] = <<ErrorReply(DBUS_ERROR_UNKNOWN_METHOD, "")>>

\* C18: the handler of a request is invoked only after the caller-identity
\* resolution succeeded and the identity is stored on the request; when the
\* resolution fails the request is failed and finished with a generic
\* failure and its handler is never invoked.
C18_HandlerAfterCallerId ==
    \A m \in MsgIds :
        /\ req[m].invoked > 0 =>
              /\ req[m].sender_ret = EOK
              /\ req[m].client = "caller"
        /\ req[m].sender_ret \notin {"none", EOK} =>
              /\ req[m].invoked = 0
              /\ req[m].st = "freed"
              /\ req[m].terminal = 1
              /\ Len(replies[m]) = 1
              /\ replies[m][1].kind = "error"
              /\ replies[m][1].name = DBUS_ERROR_FAILED

\* the handler of FindByName ran for a request that carries the caller's
\* identity
C18_Witness ==
    \E m \in MsgIds :
        /\ req[m].method = "FindByName"
        /\ req[m].invoked = 1
        /\ req[m].sender_ret = EOK
        /\ req[m].client = "caller"
        /\ req[m].st = "cache_req"

\* path is strictly below base in the object tree
IsBelow(base, path) == path # base /\ IsPathPrefix(base, path)

\* reregister_all returns success in this step, on a connection that was
\* re-established and holds no registration
C19_Case ==
    /\ dbus_tree = {}
    /\ last'.op = "reregister"
    /\ last'.ret = EOK

\* the transport hands a call on path to the dispatcher, which resolves the
\* interface name to the registration iface
DispatchesTo(tree, table, path, name, iface) ==
    /\ DBusRoutes(tree, path)
    /\ sbus_opath_hash_lookup_iface(table, path, name) = iface

C20_FailedRegistrationRetried ==
    /\ (last.op = "register" /\ last.ret = ENOMEM) =>
           /\ last.path \in failed_paths
           /\ HasIface(managed_paths, last.path, last.name)
           /\ IfaceAt(managed_paths, last.path, last.name).path = last.path
    /\ \A key \in failed_paths : key \in DOMAIN managed_paths
    /\ (last.op = "reregister" /\ last.ret = EOK) =>
           \A key \in failed_paths :
               /\ DBusRegistered(dbus_tree, sbus_opath_get_base_path(key))
               /\ DBusRoutes(dbus_tree, sbus_opath_get_base_path(key))

\* the registration of Users at /o/U/* failed at the transport, and a later
\* reregister_all succeeded: the fallback on /o/U is registered
C20_Witness ==
    /\ last.op = "reregister"
    /\ last.ret = EOK
    /\ failed_paths = {IFP_PATH_USERS_TREE}
    /\ HasIface(managed_paths, IFP_PATH_USERS_TREE, IfaceUsers)
    /\ [path |-> IFP_PATH_USERS, fallback |-> TRUE] \in dbus_tree

Getters == {"name", "uidNumber", "gidNumber", "gecos", "homeDirectory",
            "loginShell", "groups", "extraAttributes"}

\* the access control lets the getter return nothing: its attribute is not
\* allowed; for the extra attributes, none of them is allowed
Disallowed(env, getter) ==
    IF getter = "extraAttributes"
    THEN \A i \in 1..Len(ExtraAttrs) : ExtraAttrs[i] \notin env.whitelist
    ELSE getter \notin env.whitelist

\* what the getter returns for the request env when the store holds store
GetterResult(getter, env, store) ==
    CASE getter = "name" -> ifp_users_get_as_string(env, store, SYSDB_NAME)
      [] getter = "uidNumber" -> ifp_users_get_as_uint32(env, store, SYSDB_UIDNUM)
      [] getter = "gidNumber" -> ifp_users_get_as_uint32(env, store, SYSDB_GIDNUM)
      [] getter = "gecos" -> ifp_users_get_as_string(env, store, SYSDB_GECOS)
      [] getter = "homeDirectory" -> ifp_users_get_as_string(env, store, SYSDB_HOMEDIR)
      [] getter = "loginShell" -> ifp_users_get_as_string(env, store, SYSDB_SHELL)
      [] getter = "groups" -> UserGetGroups(env, store, FALSE, 0)
      [] getter = "extraAttributes" ->
             UserGetExtraAttributes(env, store, FALSE, FALSE, 0)

\* the stores that differ in what the getter may ask
StoresOf(getter) ==
    CASE getter = "groups" -> GroupStores
      [] getter = "extraAttributes" -> ExtraStores
      [] OTHER -> PwStores

WithGid(gids) == SelectSeq(gids, LAMBDA g : g # 0)

\* C16: when the groups getter returns a list, its size is the number of
\* initgroups results with a non-zero gid and its first size elements are
\* the object paths of those results, in result order.
C16_GroupsListIsDense ==
    (user_out.getter = "groups" /\ user_out.res.out_paths # NULL) =>
        LET gids == user_out.res.queries[2].answer.gids
            out == user_out.res.out_paths
            size == user_out.res.size
        IN  /\ size = Len(WithGid(gids))
            /\ Len(out) >= size
            /\ \A i \in 1..size :
                  out[i] = sbus_opath_compose(IFP_PATH_GROUPS, StoreDomain,
                                              UIntToString(WithGid(gids)[i]))

\* the place of the entry an enumerated interface was registered at, among
\* the probes of the enumeration
ProbeIndex(probes, path) == CHOOSE i \in 1..Len(probes) : probes[i] = path

\* C21: lookup_supported(path) returns the interfaces registered on path and
\* on every ancestor subtree, nearest entry first, no two of them with the
\* same name: of a name registered at several of those entries only the
\* nearest occurrence is returned.
C21_SupportedNearestOnly ==
    supported.ret = EOK =>
        LET probes == Probes(supported.path)
            list == supported.list
            names == UNION {IfaceNames(managed_paths[probes[i]]) :
                               i \in {k \in 1..Len(probes) : probes[k] \in DOMAIN managed_paths}}
        IN  /\ IfaceNames(list) = names
            /\ \A i, j \in 1..Len(list) : list[i].name = list[j].name => i = j
            /\ \A i \in 1..Len(list) :
                   list[i] = FirstMatch(managed_paths, probes, list[i].name)
            /\ \A i, j \in 1..Len(list) :
                   i < j => ProbeIndex(probes, list[i].path) <= ProbeIndex(probes, list[j].path)

\* a valid object path, or the subtree path of one: it is "/", or elements
\* without a star, each after a slash, with an optional "/*" at the end
ValidPath(p) ==
    LET b == IF sbus_opath_is_subtree(p) THEN SubSeq(p, 1, Len(p) - 2) ELSE p IN
    \/ p = <<"/">>
    \/ p = <<"/", "*">>
    \/ /\ Len(b) >= 2
       /\ b[1] = "/"
       /\ b[Len(b)] # "/"
       /\ \A i \in 1..Len(b) : b[i] # "*"
       /\ \A i \in 1..(Len(b) - 1) : ~(b[i] = "/" /\ b[i + 1] = "/")

\* the number of elements of a path: the root has none
Depth(p) == IF p = <<"/">> THEN 0 ELSE Cardinality({i \in 1..Len(p) : p[i] = "/"})

\* C24: from a valid object path the walk over the parents has returned
\* none once parent_subtree was applied depth(p)+1 times: it never goes on
\* longer.
C24_ParentWalkTerminates ==
    ValidPath(opath.start) =>
        /\ opath.steps <= Depth(opath.start) + 1
        /\ opath.steps = Depth(opath.start) + 1 => opath.cur = NULL

\* a walk of three steps over a path of two elements has ended
C24_Witness ==
    /\ opath.start = <<"/", "a", "/", "a">>
    /\ opath.steps = 3
    /\ opath.cur = NULL

\* C25: for a non-root path, subtree or not, the subtree path of its base
\* is a subtree path and the base of its base is its base; the base of
\* "/*" is "/".
C25_BaseRoundTrip ==
    (ValidPath(opath.start) /\ opath.start # <<"/">> /\ opath.based) =>
        /\ opath.base_tree_is_subtree = TRUE
        /\ opath.base_base = opath.base
        /\ opath.start = <<"/", "*">> => opath.base = <<"/">>
        /\ sbus_opath_is_subtree(opath.start) =>
               opath.base \o <<"/", "*">> = IF opath.start = <<"/", "*">>
                                            THEN <<"/", "/", "*">> ELSE opath.start
        /\ ~sbus_opath_is_subtree(opath.start) => opath.base = opath.start

\* the base of a subtree path below the root was computed
C25_Witness ==
    /\ opath.start = <<"/", "a", "/", "*">>
    /\ opath.based
    /\ opath.base = <<"/", "a">>

\* C26: decomposing the path built for a user of a known domain yields the
\* domain and the uid the path was built for.
C26_UserPathRoundTrip ==
    upath.st = "decomposed" =>
        /\ upath.dec.ret = EOK
        /\ upath.dec.domain = upath.domain
        /\ upath.dec.uid = upath.uid

\* the path of uid 10 in a domain whose name needs escaping was decomposed
C26_Witness ==
    /\ upath.st = "decomposed"
    /\ upath.domain = <<"d", ".", "c">>
    /\ upath.uid = 10
    /\ upath.path = IFP_PATH_USERS \o <<"/", "d", "_", "2", "e", "c", "/", "1", "0">>

\* the identity store was asked for the user and answered that it has none
NoSuchUser(queries) ==
    /\ Len(queries) >= 1
    /\ queries[1].query = "getpwuid"
    /\ queries[1].answer.ret = EOK
    /\ queries[1].answer.count = 0

\* C27: UpdateGroupsList on a path whose domain segment names no known
\* domain returns Domain-Not-Found, on the path of a user the identity store
\* does not have it returns Not-Found; in both cases the refresh is not
\* started.
C27_ResolutionErrorsStopUpdate ==
    (user_out.getter = "UpdateGroupsList" /\ IsIfpCtx(user_env.data)) =>
        /\ user_env.path = PathUserOtherDom =>
               /\ user_out.res.ret = ERR_DOMAIN_NOT_FOUND
               /\ ~user_out.res.refresh
               /\ user_out.res.queries = <<>>
        /\ (user_env.path = PathUser /\ NoSuchUser(user_out.res.queries)) =>
               /\ user_out.res.ret = ENOENT
               /\ ~user_out.res.refresh
        /\ user_out.res.refresh => user_out.res.ret = EOK

\* the store had no user of that uid when UpdateGroupsList was called
C27_Witness ==
    /\ user_out.getter = "UpdateGroupsList"
    /\ IsIfpCtx(user_env.data)
    /\ user_env.path = PathUser
    /\ NoSuchUser(user_out.res.queries)
    /\ user_out.res.ret = ENOENT

\* the mapping the claim describes for the answer of the store: the
\* configured extra attributes the entry holds, each with its values
ExpectedExtra(env, entry) ==
    LET configured == {ExtraAttrs[i] : i \in 1..Len(ExtraAttrs)} \cap env.whitelist
        present == {a \in configured : entry[a] # <<>>}
    IN  [set |-> TRUE, map |-> [a \in present |-> entry[a]]]

\* C28: when exactly one entry matches, the mapping the extraAttributes
\* getter returns has as keys exactly the configured extra attributes that
\* the entry holds, each with the values of the attribute as a list of
\* strings; it returns that mapping whenever nothing fails to be allocated.
C28_ExtraAttributesOfEntry ==
    (/\ user_out.getter = "extraAttributes"
     /\ Len(user_out.res.queries) = 1
     /\ user_out.res.queries[1].answer.ret = EOK
     /\ user_out.res.queries[1].answer.count = 1) =>
        LET answer == user_out.res.queries[1].answer
            store == CHOOSE s \in ExtraStores : s.search = answer
        IN  /\ user_out.res.out_table.set =>
                   user_out.res.out_table = ExpectedExtra(user_env, answer.entry)
            /\ UserGetExtraAttributes(user_env, store, FALSE, FALSE, 0).out_table
                   = ExpectedExtra(user_env, answer.entry)

\* two extra attributes are configured, the one entry holds the first only,
\* and the mapping returned has the first as its only key
C28_Witness ==
    /\ user_out.getter = "extraAttributes"
    /\ {"mail", "phone"} \subseteq user_env.whitelist
    /\ Len(user_out.res.queries) = 1
    /\ user_out.res.queries[1].answer.count = 1
    /\ user_out.res.queries[1].answer.entry.phone = <<>>
    /\ user_out.res.out_table.set
    /\ DOMAIN user_out.res.out_table.map = {"mail"}
    /\ user_out.res.out_table.map["mail"] = <<"a@x">>

\* C29: right after register_interface(path, I) has returned success,
\* lookup_iface(path, I.name) returns the interface just registered, with
\* the instance data it was registered with, for an exact path and for a
\* subtree path.
C29_RegisteredIsFoundAtOnce ==
    [][\A in \in RegInputs, object_path \in RegPaths, oom \in BOOLEAN :
          LET r == sbus_conn_register_iface(managed_paths, dbus_tree, in[1],
                                            object_path, in[2], oom)
          IN  (/\ conn_state = "alive"
               /\ nops' = nops + 1
               /\ last' = [op |-> "register", path |-> object_path, name |-> in[1],
                           ret |-> EOK, fresh |-> FALSE]
               /\ r.ret = EOK
               /\ managed_paths' = r.table
               /\ dbus_tree' = r.tree) =>
                  sbus_opath_hash_lookup_iface(managed_paths', object_path, in[1])
                      = sbus_new_interface(object_path, in[1], in[2])]_vars

\* the Users interface was just registered with success at the subtree
\* path /o/U/* while /o/U/d holds the Users interface with other instance
\* data, and the lookup on /o/U/* returns the one just registered
C29_Witness ==
    /\ last.op = "register"
    /\ last.ret = EOK
    /\ last.path = IFP_PATH_USERS_TREE
    /\ last.name = IfaceUsers
    /\ HasIface(managed_paths, PathUsersDom, IfaceUsers)
    /\ sbus_opath_hash_lookup_iface(managed_paths, IFP_PATH_USERS_TREE, IfaceUsers).path
           = IFP_PATH_USERS_TREE
    /\ sbus_opath_hash_lookup_iface(managed_paths, IFP_PATH_USERS_TREE, IfaceUsers).instance_data
           # IfaceAt(managed_paths, PathUsersDom, IfaceUsers).instance_data

\* the domain of the list that was set up as the c-th
DomOf(c) == doms.list[CHOOSE i \in 1..Len(doms.list) : doms.list[i].c = c]

ExpectedReply(r) ==
    IF r.st = "unknown" THEN ErrorReply(DBUS_ERROR_UNKNOWN_METHOD, "")
    ELSE IF r.sender_ret \notin {"none", EOK}
    THEN ErrorReply(DBUS_ERROR_FAILED, "Failed to resolve caller's ID")
    ELSE IF r.handler_ret \notin {"none", EOK}
    THEN ErrorReply(DBUS_ERROR_FAILED, "Internal Error")
    ELSE IF r.cache_ret = ENOENT THEN ErrorReply(SBUS_ERROR_NOT_FOUND, "User not found")
    ELSE IF r.cache_ret # EOK THEN ErrorReply(DBUS_ERROR_FAILED, "Failed to fetch user")
    ELSE ReturnReply(r.object_path)

\* C22: with several requests in flight, whatever the order in which their
\* continuations complete, a step that replies to a request or moves it on
\* leaves every other request and its replies as they were; the handler
\* called for a request is that of its own method on the instance data of
\* its own interface, and the reply it gets is the one its own message,
\* handler and store result determine.
C22_RequestsAreIndependent ==
    [][conn_state' = "alive" =>
         \A m \in DOMAIN req :
            /\ (req'[m] # req[m] \/ replies'[m] # replies[m]) =>
                   \A k \in DOMAIN req \ {m} :
                      req'[k] = req[k] /\ replies'[k] = replies[k]
            /\ replies'[m] # replies[m] =>
                   replies'[m] = Append(replies[m], ExpectedReply(req'[m]))
            /\ req'[m].st # "new" =>
                   req'[m].intf = IF req'[m].st \in {"unknown", "need_memory"} THEN NoIface
                                  ELSE sbus_opath_hash_lookup_iface(managed_paths,
                                           req'[m].path, req'[m].iface)
            /\ req'[m].invoked > req[m].invoked =>
                   req'[m].handler_ret \in
                       {InvokeHandler(req[m].method, req[m].intf.instance_data, oom).ret :
                            oom \in BOOLEAN}]_vars

\* two requests on different paths were waiting for the identity store
\* together; the second was answered first, with the path of the user, and
\* the first afterwards, with an error
C22_Witness ==
    /\ req[1].st = "freed" /\ req[2].st = "freed"
    /\ req[1].path # req[2].path
    /\ req[1].intf.instance_data # req[2].intf.instance_data
    /\ req[1].cache_ret = ENOENT
    /\ req[2].cache_ret = EOK
    /\ replies[1] = <<ErrorReply(SBUS_ERROR_NOT_FOUND, "User not found")>>
    /\ replies[2] = <<ReturnReply(PathUser)>>

C31_NestedIntrospectionExtends ==
    [][\A in \in RegInputs, object_path \in RegPaths, oom \in BOOLEAN :
          LET iface == sbus_new_interface(object_path, in[1], in[2])
              add == sbus_opath_hash_add_iface(managed_paths, object_path, iface)
              reg == sbus_conn_register_path(add.table, dbus_tree, object_path, oom)
              nested == sbus_opath_hash_add_iface(add.table, object_path,
                            sbus_new_interface(object_path, IfaceIntrospect, DataConn))
              r == sbus_conn_register_iface(managed_paths, dbus_tree, in[1],
                                            object_path, in[2], oom)
          IN  (/\ conn_state = "alive"
               /\ nops' = nops + 1
               /\ last' = [op |-> "register", path |-> object_path, name |-> in[1],
                           ret |-> r.ret, fresh |-> FALSE]
               /\ managed_paths' = r.table
               /\ dbus_tree' = r.tree
               /\ ~sbus_opath_hash_has_path(managed_paths, object_path)
               /\ reg.ret = EOK) =>
                  /\ nested.path_known
                  /\ nested.ret = EOK
                  /\ r.ret = EOK]_vars

\* register_path for a subtree path calls the transport's unregister on the
\* base path although the transport holds no object registration there
UnregistersUnregistered(table, tree, path) ==
    /\ sbus_opath_is_subtree(path)
    /\ sbus_opath_hash_has_path(table, sbus_opath_get_base_path(path))
    /\ [path |-> sbus_opath_get_base_path(path), fallback |-> FALSE] \notin tree

\* the same for some call of register_path in the loop of reregister_all
RECURSIVE ReregisterUnregistersUnregistered(_, _, _, _, _)
ReregisterUnregistersUnregistered(table, tree, keys, i, fail_at) ==
    IF i > Len(keys) THEN FALSE
    ELSE LET r == sbus_conn_register_path(table, tree, keys[i], i = fail_at)
         IN  \/ UnregistersUnregistered(table, tree, keys[i])
             \/ /\ r.ret = EOK
                /\ ReregisterUnregistersUnregistered(table, r.tree, keys, i + 1, fail_at)

\* C32: the transport's unregister is called only for a path the transport
\* holds a registration at: register_path for a subtree path unregisters
\* the base only when the transport holds an object registration there, in
\* register_interface and in every call reregister_all makes, and the
\* delete callback of an entry finds a registration at the base of its key.
\* Registrations that failed at the transport are left aside
\* (failed_paths = {}; in the teardown, every key whose base the transport
\* holds no registration at has lost it to a delete callback of this
\* teardown).
C32_UnregisterOnlyRegistered ==
    [][/\ \A in \in RegInputs, object_path \in RegPaths, oom \in BOOLEAN :
             LET add == sbus_opath_hash_add_iface(managed_paths, object_path,
                            sbus_new_interface(object_path, in[1], in[2]))
                 r == sbus_conn_register_iface(managed_paths, dbus_tree, in[1],
                                               object_path, in[2], oom)
             IN  (/\ conn_state = "alive"
                  /\ failed_paths = {}
                  /\ nops' = nops + 1
                  /\ last' = [op |-> "register", path |-> object_path, name |-> in[1],
                              ret |-> r.ret, fresh |-> FALSE]
                  /\ managed_paths' = r.table
                  /\ dbus_tree' = r.tree
                  /\ add.ret = EOK
                  /\ ~add.path_known) =>
                     ~UnregistersUnregistered(add.table, dbus_tree, object_path)
       /\ \A keys \in KeyOrders(managed_paths) : \A fail_at \in 0..Len(keys) :
             LET r == RegisterPathsFrom(managed_paths, dbus_tree, keys, 1, fail_at)
             IN  (/\ conn_state = "alive"
                  /\ failed_paths = {}
                  /\ last' = [op |-> "reregister", path |-> NULL, name |-> "NULL",
                              ret |-> r.ret, fresh |-> (dbus_tree = {})]
                  /\ dbus_tree' = r.tree
                  /\ managed_paths' = managed_paths) =>
                     ~ReregisterUnregistersUnregistered(managed_paths, dbus_tree,
                                                        keys, 1, fail_at)
       /\ \A key \in DOMAIN managed_paths :
             (/\ conn_state = "destroying"
              /\ \A k \in DOMAIN managed_paths :
                    \/ DBusRegistered(dbus_tree, sbus_opath_get_base_path(k))
                    \/ \E d \in released_keys \ DOMAIN managed_paths :
                          sbus_opath_get_base_path(d) = sbus_opath_get_base_path(k)
              /\ managed_paths' = HashDelete(managed_paths, key)) =>
                 DBusRegistered(dbus_tree, sbus_opath_get_base_path(key))]_vars

\* C33: the continuation of the refresh UpdateGroupsList has started makes
\* one terminal call and sends one reply: the NotFound error when the store
\* reports that the user is absent, a Failed error on any other error of
\* the store, the success reply without arguments when the refresh
\* succeeded; and it runs only for a call that has started the refresh.
C33_UpdateGroupsListEndsOnce ==
    [][(user_out'.getter = "UpdateGroupsList_done") =>
          LET res == user_out'.res IN
          /\ user_out.getter = "UpdateGroupsList"
          /\ user_out.res.refresh
          /\ user_out.res.ret = EOK
          /\ res.terminal = 1
          /\ Len(res.replies) = 1
          /\ res.recv_ret = ENOENT =>
                res.replies[1] = ErrorReply(SBUS_ERROR_NOT_FOUND, "User not found")
          /\ res.recv_ret \notin {EOK, ENOENT} =>
                /\ res.replies[1].kind = "error"
                /\ res.replies[1].name = DBUS_ERROR_FAILED
          /\ res.recv_ret = EOK => res.replies[1] = ReturnReply(NULL)]_vars

\* the refresh ended with the store reporting that the user is gone, and
\* the caller got the NotFound error
C33_Witness ==
    /\ user_out.getter = "UpdateGroupsList_done"
    /\ user_out.res.recv_ret = ENOENT
    /\ user_out.res.replies[1].name = SBUS_ERROR_NOT_FOUND

\* the segments of a request path according to the path scheme: the Users
\* prefix, then a domain and a uid written in decimal digits
IsDecimal(seg) ==
    /\ seg # <<>>
    /\ \A i \in 1..Len(seg) : seg[i] \in {Digits[d] : d \in 1..Len(Digits)}

WellFormedUserPath(prefix, segs) ==
    /\ prefix = IFP_PATH_USERS
    /\ Len(segs) = 2
    /\ segs[1] # <<>>
    /\ IsDecimal(segs[2])

PlaceIn(list, iface) == CHOOSE i \in 1..Len(list) : list[i] = iface

\* the registry with the list of every entry turned round: the interfaces
\* inserted in the opposite order
InsertedInReverse(table) ==
    [key \in DOMAIN table |->
        [i \in 1..Len(table[key]) |-> table[key][Len(table[key]) + 1 - i]]]

\* C35: the interfaces of one registry entry are enumerated by
\* lookup_supported in the order in which they were inserted into the entry,
\* and lookup_iface returns the same interface whatever the order of
\* insertion was.
C35_EnumerationKeepsInsertionOrder ==
    /\ supported.ret = EOK =>
          \A key \in DOMAIN managed_paths :
             \A i, j \in 1..Len(managed_paths[key]) :
                (/\ i < j
                 /\ \E k \in 1..Len(supported.list) :
                       supported.list[k] = managed_paths[key][i]
                 /\ \E k \in 1..Len(supported.list) :
                       supported.list[k] = managed_paths[key][j]) =>
                    PlaceIn(supported.list, managed_paths[key][i])
                        < PlaceIn(supported.list, managed_paths[key][j])
    /\ \A lookup_path \in MsgPaths, name \in {IfaceUsers, IfaceIntrospect} :
          sbus_opath_hash_lookup_iface(InsertedInReverse(managed_paths), lookup_path, name)
              = sbus_opath_hash_lookup_iface(managed_paths, lookup_path, name)

\* every key of the registry is registered with the transport: a fallback
\* at the base of a subtree key, a handler at an exact key
AllRegistered(table, tree) ==
    \A key \in DOMAIN table :
        IF sbus_opath_is_subtree(key)
        THEN [path |-> sbus_opath_get_base_path(key), fallback |-> TRUE] \in tree
        ELSE DBusRegistered(tree, key)

\* C36: reregister_all on a connection that holds a registration for every
\* key of the registry returns success and leaves the registrations of the
\* transport as they were, for exact keys, subtree keys and both (no
\* allocation fails in the call).
C36_ReregisterIsIdempotent ==
    [][\A keys \in KeyOrders(managed_paths) :
          LET r == RegisterPathsFrom(managed_paths, dbus_tree, keys, 1, 0)
          IN  (/\ conn_state = "alive"
               /\ DOMAIN managed_paths # {}
               /\ AllRegistered(managed_paths, dbus_tree)
               /\ last' = [op |-> "reregister", path |-> NULL, name |-> "NULL",
                           ret |-> r.ret, fresh |-> FALSE]
               /\ dbus_tree' = r.tree
               /\ managed_paths' = managed_paths) =>
                  /\ r.ret = EOK
                  /\ dbus_tree' = dbus_tree]_vars

\* C37: the interface and the method a request was resolved to when it was
\* dispatched stay in the request while it waits for the caller identity,
\* whatever is registered meanwhile, and the continuation calls the handler of
\* that method with the instance data of that interface
C37_DispatchResolutionIsUsed ==
    [][\A m \in DOMAIN req :
          /\ (req[m].st \in {"new", "need_memory"} /\ req'[m].st = "sender_id") =>
                 /\ req'[m].intf = sbus_opath_hash_lookup_iface(managed_paths,
                                        req'[m].path, req'[m].iface)
                 /\ req'[m].method = sbus_meta_find_method(req'[m].intf.name,
                                                           req'[m].member)
          /\ req[m].st = "sender_id" =>
                 /\ req'[m].intf = req[m].intf
                 /\ req'[m].method = req[m].method
          /\ req'[m].invoked = req[m].invoked + 1 =>
                 /\ req'[m].pvt = req[m].intf.instance_data
                 /\ \E oom \in BOOLEAN :
                        req'[m].handler_ret =
                            InvokeHandler(req[m].method, req[m].intf.instance_data, oom).ret
    ]_vars

\* the handler was called with the instance data of the subtree registration
\* although a registration on the path of the request itself, inserted while
\* the request waited, is what a lookup returns now
C37_Witness ==
    \E m \in DOMAIN req :
        /\ req[m].invoked = 1
        /\ req[m].path = PathUsersDom
        /\ req[m].intf.instance_data = "ctx1"
        /\ req[m].pvt = "ctx1"
        /\ sbus_opath_hash_lookup_iface(managed_paths, req[m].path,
                                        req[m].iface).instance_data = "ctx2"

\* the list of the groups getter has an element for every result of the
\* initgroups query and the path of its group in every element of a result
\* with a gid
GroupsListComplete(res) ==
    /\ res.queries # <<>>
    /\ LET gids == res.queries[Len(res.queries)].answer.gids IN
        /\ Len(res.out_paths) = Len(gids)
        /\ \A i \in 1..Len(gids) :
              gids[i] # 0 =>
                  res.out_paths[i] = ifp_groups_build_path_from_msg(gids[i], FALSE)

\* the map of the extraAttributes getter has every configured attribute the
\* entry holds, with the values of the entry
ExtraAttributesComplete(res) ==
    /\ res.out_table.set
    /\ res.queries # <<>>
    /\ LET q == res.queries[1]
           held == {a \in {q.attrs[i] : i \in 1..Len(q.attrs)} : q.answer.entry[a] # <<>>}
       IN  /\ DOMAIN res.out_table.map = held
           /\ \A a \in held : res.out_table.map[a] = q.answer.entry[a]

\* C38: whatever failed while it was built, the groups getter leaves either
\* no list and size 0 or the complete list, never a list that lacks the path
\* of a group, and the extraAttributes getter leaves either no map or the
\* complete map, never a map that lacks an attribute the entry holds
C38_GettersAreAllOrNothing ==
    /\ user_out.getter = "groups" =>
           \/ user_out.res.out_paths = NULL /\ user_out.res.size = 0
           \/ GroupsListComplete(user_out.res)
    /\ user_out.getter = "extraAttributes" =>
           \/ user_out.res.out_table = NoTable
           \/ ExtraAttributesComplete(user_out.res)

\* the groups getter found two groups with a gid and left no list: building
\* the list failed after the query
C38_Witness ==
    /\ user_out.getter = "groups"
    /\ user_out.res.queries # <<>>
    /\ LET a == user_out.res.queries[Len(user_out.res.queries)] IN
        /\ a.query = "initgroups"
        /\ a.answer.ret = EOK
        /\ Len(a.answer.gids) = 2
        /\ \A i \in 1..2 : a.answer.gids[i] # 0
    /\ user_out.res.out_paths = NULL
    /\ user_out.res.size = 0

\* C39: a dispatch that ends with need-memory was for a message whose handler
\* was found; it sends no reply, calls no handler, makes no terminal call and
\* leaves no request: no interface, method or caller identity is stored, and
\* the message has no reply while it waits to be delivered again
C39_NeedMemoryLeavesNothing ==
    [][\A m \in DOMAIN req :
          /\ (req[m].st = "new" /\ req'[m].st = "need_memory") =>
                 /\ LET iface == sbus_opath_hash_lookup_iface(managed_paths,
                                      req'[m].path, req'[m].iface)
                    IN  /\ iface # NoIface
                        /\ vtable_offset(sbus_meta_find_method(iface.name,
                                                               req'[m].member)) # 0
                 /\ replies' = replies
                 /\ req'[m] = [NoReq EXCEPT !.st = "need_memory",
                                            !.path = req'[m].path,
                                            !.iface = req'[m].iface,
                                            !.member = req'[m].member]
                 /\ ~HasContext(m)'
                 /\ \A k \in DOMAIN req \ {m} : req'[k] = req[k]
          /\ req[m].st = "need_memory" =>
                 /\ replies[m] = <<>>
                 /\ req[m].invoked = 0
                 /\ req[m].terminal = 0
    ]_vars

\* a message whose handler is registered was refused for want of memory: it
\* has no reply and no request
C39_Witness ==
    \E m \in DOMAIN req :
        /\ req[m].st = "need_memory"
        /\ sbus_opath_hash_lookup_iface(managed_paths, req[m].path,
                                        req[m].iface) # NoIface
        /\ replies[m] = <<>>
        /\ req[m].intf = NoIface

====
